---------------------------- MODULE Spec2Model ----------------------------
(***************************************************************************)
(* Model of the third-party-domain tag tracker (class                      *)
(* ThirdPartyDomainTracker, the configurable-TTL variant): the registry of *)
(* displayed domains, the per-domain expiry timers, the DOM container and  *)
(* the handlers that run on the single JavaScript event loop.              *)
(*                                                                         *)
(* Every handler is a function from the tracker's state (a record with one *)
(* field per object field) to the state after the handler has returned, so *)
(* that handlers compose the way the methods call each other.  An action   *)
(* of the specification runs one event-loop task to completion.            *)
(*                                                                         *)
(* Not modelled: console logging, CSS animation classes (tpd-visible,      *)
(* tpd-pulse, tpd-counter-update) and the timers that only toggle them,    *)
(* the close button element (it is always present and only forwards the    *)
(* click to removeTagManually) and the resourceType string.                *)
(***************************************************************************)
EXTENDS Integers, FiniteSets, Sequences, TLC

(***************************************************************************)
(* Bounds of the model                                                     *)
(***************************************************************************)
\* number of THIRD_PARTY_DOMAIN messages the tracker accepts in a run
MaxEvents == 3
\* the clock stops advancing at this many milliseconds
MaxTime == 1500
\* the clock of the queue-based tracker stops advancing at this many ms
QueueMaxTime == 7500
\* the clock of the tracker with icon resolution stops advancing at this
\* many ms
IconMaxTime == 5000
\* the longest text over TextAlphabet given to a pure function
MaxTextLen == 3

(***************************************************************************)
(* Program constants                                                       *)
(***************************************************************************)
DefaultTimeoutSeconds == 5
MIN_TAG_WIDTH == 280
MAX_TAG_WIDTH == 400
MsPerSecond == 1000
RemovalAnimationMs == 300
\* the fixed timeout of the queue-based tracker
QueueTimeoutMs == 5000
\* loadFavicon gives up waiting for the image after this many ms
FaviconTimeoutMs == 3000

(***************************************************************************)
(* Inputs                                                                  *)
(***************************************************************************)
BaseDomains == {"a.com", "b.com"}

FullDomainsOf(d) ==
  IF d = "a.com" THEN {"x.a.com", "y.a.com"} ELSE {"b.com"}

\* An optional JavaScript value is a set with at most one element:
\* {} is undefined, {v} is the value v.
TimeoutSecondsInputs == {{}, {0}, {1}}
EnableTimeoutInputs == {{}, {TRUE}, {FALSE}}

\* the TIMEOUT_CHANGED messages: every value of either field occurs
TimeoutMessage(timeoutSeconds, enableTimeoutOpt) ==
  [timeoutSeconds |-> timeoutSeconds, enableTimeout |-> enableTimeoutOpt]

TimeoutMessageInputs ==
  {TimeoutMessage({1}, {TRUE}), TimeoutMessage({1}, {FALSE}),
   TimeoutMessage({0}, {TRUE}), TimeoutMessage({}, {FALSE}),
   TimeoutMessage({}, {})}

\* the changes chrome.storage reports: one key per write of the popup, all
\* three keys for the write of the background page at installation
Change(enabled, timeoutSeconds, enableTimeoutOpt) ==
  [enabled |-> enabled, timeoutSeconds |-> timeoutSeconds,
   enableTimeout |-> enableTimeoutOpt]

StorageChangeInputs ==
  {Change({TRUE}, {}, {}), Change({FALSE}, {}, {}),
   Change({}, {1}, {}),
   Change({}, {}, {TRUE}), Change({}, {}, {FALSE}),
   Change({TRUE}, {5}, {TRUE})}

\* the clock advances to the next multiple of this, or to the next timer:
\* half the shortest timeout the settings can select
ClockGridMs == MsPerSecond \div 2
QueueClockGridMs == QueueTimeoutMs \div 2

Value(opt) == CHOOSE v \in opt : TRUE

(***************************************************************************)
(* State                                                                   *)
(***************************************************************************)
VARIABLES
  isEnabled,         \* this.isEnabled
  timeoutDuration,   \* this.timeoutDuration (ms)
  enableTimeout,     \* this.enableTimeout
  displayedDomains,  \* this.displayedDomains: baseDomain -> [element, count]
  domainTimeouts,    \* this.domainTimeouts: baseDomain -> timer id
  subdomainCounts,   \* this.subdomainCounts: baseDomain -> set of fullDomain
  tags,              \* the tag elements still referenced, in creation order
  timers,            \* timers armed with setTimeout and not yet run/cleared
  now,               \* the clock, in ms
  loadPending,       \* chrome.storage.local.get callback not yet delivered
  checkPending,      \* GET_ENABLED_STATE response not yet delivered
  eventsSince,       \* history: events accepted per key since its record was last absent
  eventsSeen,        \* history: number of events accepted so far
  lastEventAt,       \* history: baseDomain -> time of the last accepted
                     \* event of its record; kept only where its domain
                     \* is not empty (AgedInit)
  queueTracker,      \* the queue-based tracker (content.js), see QueueInit
  iconTracker,       \* the tracker with its icon resolution, see IconInit
  call               \* a call of one of the class's pure methods: its
                     \* arguments and how far it has got, see NoCall

vars == <<isEnabled, timeoutDuration, enableTimeout, displayedDomains,
          domainTimeouts, subdomainCounts, tags, timers, now,
          loadPending, checkPending, eventsSince, eventsSeen, lastEventAt>>

\* the tracker's state as one record
State ==
  [isEnabled |-> isEnabled, timeoutDuration |-> timeoutDuration,
   enableTimeout |-> enableTimeout, displayedDomains |-> displayedDomains,
   domainTimeouts |-> domainTimeouts, subdomainCounts |-> subdomainCounts,
   tags |-> tags, timers |-> timers, now |-> now]

(***************************************************************************)
(* Map helpers                                                             *)
(***************************************************************************)
MapSet(m, k, v) == [x \in (DOMAIN m) \cup {k} |-> IF x = k THEN v ELSE m[x]]

MapDelete(m, k) == [x \in (DOMAIN m) \ {k} |-> m[x]]

EmptyMap == [x \in {} |-> 0]


(***************************************************************************)
(* Timers of the JavaScript runtime                                        *)
(***************************************************************************)
Range(m) == {m[k] : k \in DOMAIN m}

\* The id setTimeout returns next.  The runtime never returns an id twice;
\* the program can tell ids apart only through the ids it still holds (in
\* domainTimeouts) and the timers still armed, so the model names the new
\* timer by the least positive id that is neither.
NextTimerId(s) ==
  CHOOSE n \in 1..(Cardinality(s.timers) + Cardinality(DOMAIN s.domainTimeouts) + 1) :
    /\ n \notin {t.id : t \in s.timers} \cup Range(s.domainTimeouts)
    /\ \A m \in 1..(n - 1) :
          m \in {t.id : t \in s.timers} \cup Range(s.domainTimeouts)

\* setTimeout(callback, delay) with the id it returns: arms a timer.  kind
\* and domain/element are what the callback closure captured; forElement
\* and forCount are the element and the count the key's record had when the
\* timer was armed (history only, no handler reads them).
SetTimeout(s, id, kind, d, e, delay) ==
  [s EXCEPT
     !.timers = @ \cup
        {[id |-> id, kind |-> kind, domain |-> d, element |-> e,
          delay |-> delay, due |-> s.now + delay,
          forElement |-> IF d \in DOMAIN s.displayedDomains
                         THEN s.displayedDomains[d].element ELSE 0,
          forCount |-> IF d \in DOMAIN s.displayedDomains
                       THEN s.displayedDomains[d].count ELSE 0]}]

\* clearTimeout(id): the timer with that id, if still armed, never runs
ClearTimeout(s, id) ==
  [s EXCEPT !.timers = {t \in @ : t.id # id}]

(***************************************************************************)
(* Timeout management                                                      *)
(***************************************************************************)
setDomainTimeout(s, baseDomain) ==
  IF ~s.enableTimeout \/ s.timeoutDuration <= 0
  THEN s
  ELSE LET s1 == SetTimeout(s, NextTimerId(s), "expiry", baseDomain, 0,
                           s.timeoutDuration)
       IN [s1 EXCEPT !.domainTimeouts = MapSet(@, baseDomain, NextTimerId(s))]

\* Faulty variant, for testing the properties: forgets the timer's id and
\* leaves the timer armed.
clearDomainTimeout_ForgetsOnly(s, baseDomain) ==
  [s EXCEPT !.domainTimeouts = MapDelete(@, baseDomain)]

clearDomainTimeout(s, baseDomain) ==
  IF baseDomain \in DOMAIN s.domainTimeouts /\ s.domainTimeouts[baseDomain] # 0
  THEN LET s1 == ClearTimeout(s, s.domainTimeouts[baseDomain])
       IN [s1 EXCEPT !.domainTimeouts = MapDelete(@, baseDomain)]
  ELSE s

\* Faulty variant, for testing the properties: empties the map and leaves
\* the timers armed.
clearAllTimeouts_ForgetsOnly(s) ==
  [s EXCEPT !.domainTimeouts = EmptyMap]

clearAllTimeouts(s) ==
  [s EXCEPT
     !.timers = {t \in @ : \A d \in DOMAIN s.domainTimeouts :
                              t.id # s.domainTimeouts[d]},
     !.domainTimeouts = EmptyMap]

\* displayedDomains.forEach: the order of the iteration decides only which
\* timer gets which id, so the model visits the keys in one fixed order
RECURSIVE SetTimeoutsFor(_, _)
SetTimeoutsFor(s, keys) ==
  IF keys = {} THEN s
  ELSE LET d == CHOOSE k \in keys : TRUE
           s1 == IF d \notin DOMAIN s.domainTimeouts
                 THEN setDomainTimeout(s, d) ELSE s
       IN SetTimeoutsFor(s1, keys \ {d})

\* Faulty variant, for testing the properties: cancels every armed timer and
\* arms a fresh one for every record.
setTimeoutsForExistingTags_Restarts(s) ==
  SetTimeoutsFor(clearAllTimeouts(s), DOMAIN s.displayedDomains)

setTimeoutsForExistingTags(s) ==
  SetTimeoutsFor(s, DOMAIN s.displayedDomains)

(***************************************************************************)
(* Configuration                                                           *)
(***************************************************************************)
\* (timeoutSeconds || 5) * 1000: undefined and 0 are falsy
DurationOf(timeoutSeconds) ==
  (IF timeoutSeconds = {} \/ timeoutSeconds = {0}
   THEN DefaultTimeoutSeconds ELSE Value(timeoutSeconds)) * MsPerSecond

\* enableTimeout !== false
NotFalse(opt) == opt # {FALSE}

\* the callback of chrome.storage.local.get in loadTimeoutSettings
loadTimeoutSettings(s, timeoutSeconds, enableTimeoutOpt) ==
  [s EXCEPT !.timeoutDuration = DurationOf(timeoutSeconds),
            !.enableTimeout = NotFalse(enableTimeoutOpt)]

updateTimeoutSettings(s, timeoutSeconds, enableTimeoutOpt) ==
  LET s1 == [s EXCEPT !.timeoutDuration = DurationOf(timeoutSeconds),
                      !.enableTimeout = NotFalse(enableTimeoutOpt)]
  IN IF s1.enableTimeout THEN setTimeoutsForExistingTags(s1)
     ELSE clearAllTimeouts(s1)

(***************************************************************************)
(* getDomainColorClass.  A text is the sequence of its UTF-16 code units   *)
(* (charCodeAt).  The hash is a 32-bit integer: a record of the two 16-bit *)
(* halves of its two's-complement pattern, so that no intermediate value   *)
(* leaves the range of the arithmetic used here.                           *)
(***************************************************************************)
Half == 65536

\* the 32-bit integers
Int32 == [hi : 0..(Half - 1), lo : 0..(Half - 1)]

Int32Zero == [hi |-> 0, lo |-> 0]

\* the 32-bit pattern of a small non-negative number
Int32Of(n) == [hi |-> n \div Half, lo |-> n % Half]

\* x << n
ShiftLeft(x, n) ==
  LET lo == x.lo * (2 ^ n)
  IN [hi |-> (x.hi * (2 ^ n) + lo \div Half) % Half, lo |-> lo % Half]

\* ToInt32(x + y)
Int32Plus(x, y) ==
  LET lo == x.lo + y.lo
  IN [hi |-> (x.hi + y.hi + lo \div Half) % Half, lo |-> lo % Half]

\* ToInt32(x - y)
Int32Minus(x, y) ==
  LET lo == x.lo - y.lo + Half
  IN [hi |-> (x.hi - y.hi + Half - 1 + lo \div Half) % Half, lo |-> lo % Half]

Int32Negative(x) == x.hi >= Half \div 2

\* Math.abs(x) of a 32-bit integer, a Number: -2^31 gives 2^31, which is
\* the pattern of -2^31 read as an unsigned magnitude
MathAbs_KeepsSign(x) ==
  [negative |-> Int32Negative(x),
   magnitude |-> IF Int32Negative(x) THEN Int32Minus(Int32Zero, x) ELSE x]

MathAbs(x) ==
  [negative |-> FALSE,
   magnitude |-> IF Int32Negative(x) THEN Int32Minus(Int32Zero, x) ELSE x]

\* x % n of JavaScript: the sign of the result is the sign of x
Remainder(x, n) ==
  LET r == (((x.magnitude.hi % n) * (Half % n)) + (x.magnitude.lo % n)) % n
  IN IF x.negative THEN 0 - r ELSE r

\* one turn of the loop: hash = ((hash << 5) - hash) + char;
\* hash = hash & hash.  The sum is reduced to 32 bits at each operation
\* here and once, by the &, in the code: the same value modulo 2^32.
HashChar(char) ==
  [hash \in Int32 |->
     Int32Plus(Int32Minus(ShiftLeft(hash, 5), hash), Int32Of(char))]

colorClasses ==
  <<"color-orange", "color-vista-bleu", "color-amande", "color-bleu-oxford">>

\* this.colorClasses[index]: undefined outside 0 .. length - 1
ColorClassAt(index) ==
  IF index \in 0..(Len(colorClasses) - 1) THEN colorClasses[index + 1]
  ELSE "undefined"

ColorIndex(hash) == Remainder(MathAbs(hash), Len(colorClasses))

\* hash after the first n turns of the loop over domain
RECURSIVE HashAfter(_, _)
HashAfter(domain, n) ==
  IF n = 0 THEN Int32Zero
  ELSE HashChar(domain[n])[HashAfter(domain, n - 1)]

getDomainColorClass(domain) ==
  ColorClassAt(ColorIndex(HashAfter(domain, Len(domain))))

\* the code units of the texts used below
CharCodes ==
  [c \in {"a", "b", "c", "d", "e", "f", "i", "j", "k", "l", "m", "n", "o",
          "t", "u", "x", ".", "-"} |->
     CASE c = "a" -> 97  [] c = "b" -> 98  [] c = "c" -> 99  [] c = "d" -> 100
       [] c = "e" -> 101 [] c = "f" -> 102 [] c = "i" -> 105 [] c = "j" -> 106
       [] c = "k" -> 107 [] c = "l" -> 108 [] c = "m" -> 109 [] c = "n" -> 110
       [] c = "o" -> 111 [] c = "t" -> 116 [] c = "u" -> 117 [] c = "x" -> 120
       [] c = "." -> 46  [] c = "-" -> 45]

Text(chars) == [i \in 1..Len(chars) |-> CharCodes[chars[i]]]

TextAlphabet == {CharCodes["a"], CharCodes["x"], CharCodes["."]}

RECURSIVE TextsUpTo(_)
TextsUpTo(n) ==
  IF n = 0 THEN {<<>>}
  ELSE LET shorter == TextsUpTo(n - 1)
       IN shorter \cup {Append(t, c) : t \in shorter, c \in TextAlphabet}

\* the empty text, every text over TextAlphabet up to MaxTextLen, the model's
\* domains, a domain whose hash is negative ("doubleclick.net") and a text
\* whose hash is -2^31 ("xfjfxtf")
DomainTexts ==
  TextsUpTo(MaxTextLen)
  \cup {Text(<<"a", ".", "c", "o", "m">>), Text(<<"b", ".", "c", "o", "m">>),
        Text(<<"d", "o", "u", "b", "l", "e", "c", "l", "i", "c", "k", ".",
               "n", "e", "t">>),
        Text(<<"x", "f", "j", "f", "x", "t", "f">>)}

\* the code units of the domains of the messages
DomainText(baseDomain) ==
  CASE baseDomain = "a.com" -> Text(<<"a", ".", "c", "o", "m">>)
    [] baseDomain = "b.com" -> Text(<<"b", ".", "c", "o", "m">>)
    [] baseDomain = "" -> <<>>

\* no pure call under way
NoCall == [method |-> "none"]

(***************************************************************************)
(* calculateOptimalTagWidth.  measureText(text).width is a fraction of a   *)
(* pixel: measured widths are counted in tenths of a pixel.  What the      *)
(* canvas measures depends on the font the browser selects: a font is the  *)
(* advance of each glyph in tenths of an em, and a text's width at a font  *)
(* size is the sum of its glyphs' advances times the size.                 *)
(***************************************************************************)
PerPixel == 10

DigitCodes == 48..57

CodeUnits == Range(CharCodes) \cup DigitCodes

\* the font of the test suite's canvas: every glyph 0.6 em wide
MockFont == [c \in CodeUnits |-> 6]

\* a font none of whose glyphs has a width
BlankFont == [c \in CodeUnits |-> 0]

\* a wide monospaced font with narrower figures
WideFont == [c \in CodeUnits |-> IF c \in DigitCodes THEN 25 ELSE 31]

\* a wide proportional font: the advance differs from glyph to glyph
ProportionalFont ==
  [c \in CodeUnits |->
     IF c \in DigitCodes THEN 8 + 7 * (c - 48)
     ELSE IF c = CharCodes["."] THEN 9
     ELSE 32 + (c % 7)]

Fonts == {MockFont, BlankFont, WideFont, ProportionalFont}

\* count.toString()
RECURSIVE CountText(_)
CountText(count) ==
  IF count < 10 THEN <<48 + count>>
  ELSE Append(CountText(count \div 10), 48 + (count % 10))

\* the advances of the first n glyphs of text
RECURSIVE Advance(_, _, _)
Advance(font, text, n) ==
  IF n = 0 THEN 0 ELSE Advance(font, text, n - 1) + font[text[n]]

\* measureTextWidth, in tenths of a pixel
measureTextWidth(font, text, fontSize) ==
  fontSize * Advance(font, text, Len(text))

MathMax(a, b) == IF a >= b THEN a ELSE b
MathMin(a, b) == IF a <= b THEN a ELSE b

\* Math.ceil of a number of tenths of a pixel, in pixels
MathCeil(tenths) == (tenths + PerPixel - 1) \div PerPixel

\* totalWidth of calculateOptimalTagWidth from the two measured widths, in
\* tenths of a pixel
TotalWidth(domainWidth, countWidth) ==
  LET iconWidth == 22 * PerPixel
      padding == 24 * PerPixel
      countBadgeWidth == MathMax(30 * PerPixel, countWidth + 12 * PerPixel)
      closeButtonSpace == 24 * PerPixel
      extraMargin == 16 * PerPixel
  IN domainWidth + iconWidth + padding + countBadgeWidth + closeButtonSpace
       + extraMargin

\* the value calculateOptimalTagWidth returns, in pixels
ConstrainedWidth(totalWidth) ==
  MathMax(MIN_TAG_WIDTH, MathMin(MAX_TAG_WIDTH, MathCeil(totalWidth)))

\* Faulty variant, for testing the properties: the maximum is not applied.
calculateOptimalTagWidth_NoMaximum(font, domainText, count) ==
  LET domainWidth == measureTextWidth(font, domainText, 12)
      countWidth == measureTextWidth(font, CountText(count), 10)
  IN MathMax(MIN_TAG_WIDTH, MathCeil(TotalWidth(domainWidth, countWidth)))

\* Faulty variant, for testing the properties: the count badge is taken off
\* the width of the domain text.
calculateOptimalTagWidth_BadgeTakenOff(font, domainText, count) ==
  LET domainWidth == measureTextWidth(font, domainText, 12)
      countWidth == measureTextWidth(font, CountText(count), 10)
  IN ConstrainedWidth(TotalWidth(domainWidth - 2 * countWidth, 0))

calculateOptimalTagWidth(font, domainText, count) ==
  LET domainWidth == measureTextWidth(font, domainText, 12)
      countWidth == measureTextWidth(font, CountText(count), 10)
  IN ConstrainedWidth(TotalWidth(domainWidth, countWidth))

\* the font the canvas of the page measures with
PageFont == ProportionalFont

\* getDomainColorClass(baseDomain) and calculateOptimalTagWidth(baseDomain,
\* count) for the domains of the messages and the counts a record can
\* reach: both are functions of their arguments alone, evaluated once
DomainColorClass ==
  [baseDomain \in BaseDomains \cup {""} |->
     getDomainColorClass(DomainText(baseDomain))]

OptimalTagWidth ==
  [baseDomain \in BaseDomains \cup {""} |->
     [count \in 1..(MaxEvents + 1) |->
        calculateOptimalTagWidth(PageFont, DomainText(baseDomain), count)]]

\* the counts given to calculateOptimalTagWidth: one to five figures
Counts == {1, 2, 9, 10, 99, 100, 12345}

(***************************************************************************)
(* Domain processing                                                       *)
(***************************************************************************)
\* document.createElement returns a new object: the model names an element
\* by its position among the elements still referenced, in creation order
NextElement(s) == Len(s.tags) + 1

\* Faulty variant, for testing the properties: every tag gets the first
\* class of the palette.
createDomainTag_OneColor(s, baseDomain) ==
  [s EXCEPT
     !.tags = Append(@, [domain |-> baseDomain, count |-> 1,
                         removing |-> FALSE, inDOM |-> TRUE,
                         removal |-> "none",
                         colorClass |-> colorClasses[1],
                         width |-> OptimalTagWidth[baseDomain][1]])]

\* createDomainTag: a new element, appended to the container, counter "1",
\* className "tpd-tag <colorClass>", style.width the optimal width for
\* count 1.  removal is history only (no handler reads it): which task took
\* the element's record out of the registry.
createDomainTag(s, baseDomain) ==
  [s EXCEPT
     !.tags = Append(@, [domain |-> baseDomain, count |-> 1,
                         removing |-> FALSE, inDOM |-> TRUE,
                         removal |-> "none",
                         colorClass |-> DomainColorClass[baseDomain],
                         width |-> OptimalTagWidth[baseDomain][1]])]

\* Faulty variant, for testing the properties: the count span keeps its
\* text.
updateDomainCounter_KeepsText(s, baseDomain) == s

\* Faulty variant, for testing the properties: the width stays the one of
\* the previous count.
updateDomainCounter_KeepsWidth(s, baseDomain) ==
  LET domainData == s.displayedDomains[baseDomain]
  IN [s EXCEPT !.tags[domainData.element].count = domainData.count]

\* updateDomainCounter: the count span shows the record's count and the
\* width is recalculated for it
updateDomainCounter(s, baseDomain) ==
  LET domainData == s.displayedDomains[baseDomain]
  IN [s EXCEPT !.tags[domainData.element].count = domainData.count,
               !.tags[domainData.element].width =
                  OptimalTagWidth[baseDomain][domainData.count]]

\* Faulty variant, for testing the properties: counts an event only when
\* its fullDomain is new for the record.
updateExistingDomain_CountsNewSubdomains(s, baseDomain, fullDomain) ==
  LET s1 == clearDomainTimeout(s, baseDomain)
      s2 == [s1 EXCEPT !.subdomainCounts[baseDomain] = @ \cup {fullDomain}]
      s3 == IF fullDomain \in s1.subdomainCounts[baseDomain] THEN s2
            ELSE [s2 EXCEPT !.displayedDomains[baseDomain].count = @ + 1]
      s4 == updateDomainCounter(s3, baseDomain)
  IN IF s4.enableTimeout /\ s4.timeoutDuration > 0
     THEN setDomainTimeout(s4, baseDomain)
     ELSE s4

\* Faulty variant, for testing the properties: arms the fresh timer without
\* cancelling the armed one.
updateExistingDomain_KeepsOldTimer(s, baseDomain, fullDomain) ==
  LET s2 == [s EXCEPT !.subdomainCounts[baseDomain] = @ \cup {fullDomain}]
      s3 == [s2 EXCEPT !.displayedDomains[baseDomain].count = @ + 1]
      s4 == updateDomainCounter(s3, baseDomain)
  IN IF s4.enableTimeout /\ s4.timeoutDuration > 0
     THEN setDomainTimeout(s4, baseDomain)
     ELSE s4

\* Faulty variant, for testing the properties: merges the event and leaves
\* the armed timer as it is.
updateExistingDomain_LeavesTimer(s, baseDomain, fullDomain) ==
  LET s2 == [s EXCEPT !.subdomainCounts[baseDomain] = @ \cup {fullDomain}]
      s3 == [s2 EXCEPT !.displayedDomains[baseDomain].count = @ + 1]
  IN updateDomainCounter(s3, baseDomain)

updateExistingDomain(s, baseDomain, fullDomain) ==
  LET s1 == clearDomainTimeout(s, baseDomain)
      s2 == [s1 EXCEPT !.subdomainCounts[baseDomain] = @ \cup {fullDomain}]
      s3 == [s2 EXCEPT !.displayedDomains[baseDomain].count = @ + 1]
      s4 == updateDomainCounter(s3, baseDomain)
  IN IF s4.enableTimeout /\ s4.timeoutDuration > 0
     THEN setDomainTimeout(s4, baseDomain)
     ELSE s4

\* Faulty variant, for testing the properties: arms the expiry timer of a
\* new record whatever enableTimeout says.
createNewDomain_AlwaysArms(s, baseDomain, fullDomain) ==
  LET s1 == createDomainTag(s, baseDomain)
      s2 == [s1 EXCEPT
               !.displayedDomains =
                  MapSet(@, baseDomain, [element |-> NextElement(s), count |-> 1]),
               !.subdomainCounts = MapSet(@, baseDomain, {fullDomain})]
      s3 == SetTimeout(s2, NextTimerId(s2), "expiry", baseDomain, 0,
                       s2.timeoutDuration)
  IN [s3 EXCEPT !.domainTimeouts = MapSet(@, baseDomain, NextTimerId(s2))]

createNewDomain(s, baseDomain, fullDomain) ==
  LET s1 == createDomainTag(s, baseDomain)
      s2 == [s1 EXCEPT
               !.displayedDomains =
                  MapSet(@, baseDomain, [element |-> NextElement(s), count |-> 1]),
               !.subdomainCounts = MapSet(@, baseDomain, {fullDomain})]
  IN IF s2.enableTimeout /\ s2.timeoutDuration > 0
     THEN setDomainTimeout(s2, baseDomain)
     ELSE s2

\* Faulty variant, for testing the properties: creates a record for every
\* event.
processDomainEvent_AlwaysCreates(s, baseDomain, fullDomain) ==
  createNewDomain(s, baseDomain, fullDomain)

\* Faulty variant, for testing the properties: an event for a key that has
\* no record but a tag in its removal animation takes that tag back.
processDomainEvent_RevivesTag(s, baseDomain, fullDomain) ==
  LET torn == {e \in DOMAIN s.tags :
                 /\ s.tags[e].domain = baseDomain
                 /\ s.tags[e].inDOM /\ s.tags[e].removing}
  IN IF baseDomain \in DOMAIN s.displayedDomains
     THEN updateExistingDomain(s, baseDomain, fullDomain)
     ELSE IF torn # {}
     THEN LET e == CHOOSE x \in torn : TRUE
          IN [s EXCEPT
                !.displayedDomains =
                   MapSet(@, baseDomain,
                          [element |-> e, count |-> s.tags[e].count + 1]),
                !.subdomainCounts = MapSet(@, baseDomain, {fullDomain}),
                !.tags[e].count = @ + 1]
     ELSE createNewDomain(s, baseDomain, fullDomain)

processDomainEvent(s, baseDomain, fullDomain) ==
  IF baseDomain \in DOMAIN s.displayedDomains
  THEN updateExistingDomain(s, baseDomain, fullDomain)
  ELSE createNewDomain(s, baseDomain, fullDomain)

(***************************************************************************)
(* Removal                                                                 *)
(***************************************************************************)
\* Faulty variant, for testing the properties: starts the removal animation
\* and leaves the record in the maps.
removeDomain_KeepsRecord(s, baseDomain) ==
  IF baseDomain \notin DOMAIN s.displayedDomains
  THEN s
  ELSE LET tag == s.displayedDomains[baseDomain].element
           s1 == clearDomainTimeout(s, baseDomain)
           s3 == [s1 EXCEPT !.tags[tag].removing = TRUE]
       IN SetTimeout(s3, 0, "domRemove", baseDomain, tag, RemovalAnimationMs)

removeDomain_KeepsSubdomains(s, baseDomain) ==
  IF baseDomain \notin DOMAIN s.displayedDomains
  THEN s
  ELSE LET tag == s.displayedDomains[baseDomain].element
           s1 == clearDomainTimeout(s, baseDomain)
           s2 == [s1 EXCEPT !.displayedDomains = MapDelete(@, baseDomain)]
           s3 == [s2 EXCEPT !.tags[tag].removing = TRUE]
       IN SetTimeout(s3, 0, "domRemove", baseDomain, tag, RemovalAnimationMs)

removeDomain(s, baseDomain) ==
  IF baseDomain \notin DOMAIN s.displayedDomains
  THEN s
  ELSE LET tag == s.displayedDomains[baseDomain].element
           s1 == clearDomainTimeout(s, baseDomain)
           s2 == [s1 EXCEPT !.displayedDomains = MapDelete(@, baseDomain),
                            !.subdomainCounts = MapDelete(@, baseDomain)]
           s3 == [s2 EXCEPT !.tags[tag].removing = TRUE]
       IN SetTimeout(s3, 0, "domRemove", baseDomain, tag, RemovalAnimationMs)

\* the callback removeDomain schedules (the id of its timer is dropped, the
\* model gives it id 0): detach the tag if still attached
removeDomainCallback(s, tag) ==
  IF s.tags[tag].inDOM THEN [s EXCEPT !.tags[tag].inDOM = FALSE] ELSE s

\* Faulty variant, for testing the properties: removes the record and
\* leaves its expiry timer armed.
removeTagManually_KeepsTimer(s, baseDomain) ==
  IF baseDomain \notin DOMAIN s.displayedDomains
  THEN s
  ELSE LET tag == s.displayedDomains[baseDomain].element
           s2 == [s EXCEPT !.displayedDomains = MapDelete(@, baseDomain),
                           !.subdomainCounts = MapDelete(@, baseDomain)]
           s3 == [s2 EXCEPT !.tags[tag].removing = TRUE]
       IN SetTimeout(s3, 0, "domRemove", baseDomain, tag, RemovalAnimationMs)

removeTagManually(s, baseDomain) == removeDomain(s, baseDomain)

\* Faulty variant, for testing the properties: empties the maps and leaves
\* the expiry timers armed.
clearAllTags_KeepsTimers(s) ==
  LET live == {s.displayedDomains[d].element : d \in DOMAIN s.displayedDomains}
  IN [s EXCEPT
        !.tags = [e \in DOMAIN @ |->
                    IF e \in live THEN [@[e] EXCEPT !.inDOM = FALSE] ELSE @[e]],
        !.displayedDomains = EmptyMap,
        !.domainTimeouts = EmptyMap,
        !.subdomainCounts = EmptyMap]

clearAllTags(s) ==
  LET s1 == [s EXCEPT
               !.timers = {t \in @ : \A d \in DOMAIN s.domainTimeouts :
                                        t.id # s.domainTimeouts[d]}]
      live == {s.displayedDomains[d].element : d \in DOMAIN s.displayedDomains}
  IN [s1 EXCEPT
        !.tags = [e \in DOMAIN @ |->
                    IF e \in live THEN [@[e] EXCEPT !.inDOM = FALSE] ELSE @[e]],
        !.displayedDomains = EmptyMap,
        !.domainTimeouts = EmptyMap,
        !.subdomainCounts = EmptyMap]

(***************************************************************************)
(* Listeners                                                               *)
(***************************************************************************)
\* Faulty variant, for testing the properties: the listener processes the
\* event whatever isEnabled is.
onThirdPartyDomain_IgnoresEnabled(s, baseDomain, fullDomain) ==
  processDomainEvent(s, baseDomain, fullDomain)

\* chrome.runtime.onMessage listener, message THIRD_PARTY_DOMAIN
onThirdPartyDomain(s, baseDomain, fullDomain) ==
  IF s.isEnabled THEN processDomainEvent(s, baseDomain, fullDomain) ELSE s

\* the same listener for a message whose domain is "" or missing
\* (domainOpt = {}): with baseDomain undefined no record is found and
\* createNewDomain's first call, createDomainTag, throws in
\* getDomainColorClass (domain.length); the catch block logs and returns
\* with the tracker as it was
onMalformedThirdPartyDomain(s, domainOpt, fullDomain) ==
  IF ~s.isEnabled THEN s
  ELSE IF domainOpt = {} THEN s
  ELSE processDomainEvent(s, Value(domainOpt), fullDomain)

\* chrome.runtime.onMessage listener, message TIMEOUT_CHANGED
onTimeoutChanged(s, timeoutSeconds, enableTimeoutOpt) ==
  updateTimeoutSettings(s, timeoutSeconds, enableTimeoutOpt)

\* chrome.storage.onChanged listener; a field of changes is {} when the key
\* is not among the changes and {newValue} when it is
onStorageChanged(s, changes) ==
  LET s1 == IF changes.enabled # {}
            THEN LET e == [s EXCEPT !.isEnabled = Value(changes.enabled)]
                 IN IF ~e.isEnabled THEN clearAllTags(e) ELSE e
            ELSE s
  IN IF changes.timeoutSeconds # {} \/ changes.enableTimeout # {}
     THEN LET ts == IF changes.timeoutSeconds = {} \/ changes.timeoutSeconds = {0}
                    THEN {s1.timeoutDuration \div MsPerSecond}
                    ELSE changes.timeoutSeconds
          IN updateTimeoutSettings(s1, ts, changes.enableTimeout)
     ELSE s1

\* the response callback of GET_ENABLED_STATE in checkEnabledState
checkEnabledState(s, enabled) == [s EXCEPT !.isEnabled = enabled]


(***************************************************************************)
(* The queue-based tracker (content.js): THIRD_PARTY_DOMAIN messages are   *)
(* pushed on domainQueue and a setInterval consumer processes one per run. *)
(* Its state is one record; clearDomainTimeout, removeDomain, the tag      *)
(* helpers and the timers are the ones above, the methods being the same   *)
(* in both classes, except that content.js sets no width: the width of     *)
(* its tags is not part of its state and nothing reads it.  It has no      *)
(* settings and no close button.                                           *)
(***************************************************************************)
\* checkPending (GET_ENABLED_STATE not yet answered) and eventsSeen (number
\* of messages enqueued so far) are not fields of the class
QueueInit ==
  [isEnabled |-> TRUE, domainQueue |-> <<>>,
   displayedDomains |-> EmptyMap, domainTimeouts |-> EmptyMap,
   subdomainCounts |-> EmptyMap, tags |-> <<>>, timers |-> {}, now |-> 0,
   checkPending |-> TRUE, eventsSeen |-> 0, lastProcessed |-> 0]

\* seq is history only (no handler reads it): the event is that of the
\* seq-th message the page has received; lastProcessed is the seq of the
\* event processDomainEvent was last called with.
enqueueDomainEvent(q, baseDomain, fullDomain) ==
  IF ~q.isEnabled THEN q
  ELSE [q EXCEPT !.domainQueue =
          Append(@, [baseDomain |-> baseDomain, fullDomain |-> fullDomain,
                     seq |-> q.eventsSeen + 1])]

\* setDomainTimeout of content.js: always armed, 5000 ms
Queue_setDomainTimeout(q, baseDomain) ==
  LET q1 == SetTimeout(q, NextTimerId(q), "expiry", baseDomain, 0,
                       QueueTimeoutMs)
  IN [q1 EXCEPT !.domainTimeouts = MapSet(@, baseDomain, NextTimerId(q))]

\* Faulty variant, for testing the properties: counts every event, as
\* updateExistingDomain of the TTL tracker does.
Queue_updateExistingDomain_CountsEvery(q, baseDomain, fullDomain) ==
  LET q1 == clearDomainTimeout(q, baseDomain)
      q2 == [q1 EXCEPT !.subdomainCounts[baseDomain] = @ \cup {fullDomain}]
      q3 == updateDomainCounter(
              [q2 EXCEPT !.displayedDomains[baseDomain].count = @ + 1],
              baseDomain)
  IN Queue_setDomainTimeout(q3, baseDomain)

\* updateExistingDomain of content.js: the count follows the new subdomains
Queue_updateExistingDomain(q, baseDomain, fullDomain) ==
  LET q1 == clearDomainTimeout(q, baseDomain)
      q2 == [q1 EXCEPT !.subdomainCounts[baseDomain] = @ \cup {fullDomain}]
      q3 == IF fullDomain \in q1.subdomainCounts[baseDomain] THEN q2
            ELSE updateDomainCounter(
                   [q2 EXCEPT !.displayedDomains[baseDomain].count = @ + 1],
                   baseDomain)
  IN Queue_setDomainTimeout(q3, baseDomain)

Queue_createNewDomain(q, baseDomain, fullDomain) ==
  LET q1 == createDomainTag(q, baseDomain)
      q2 == [q1 EXCEPT
               !.displayedDomains =
                  MapSet(@, baseDomain, [element |-> NextElement(q), count |-> 1]),
               !.subdomainCounts = MapSet(@, baseDomain, {fullDomain})]
  IN Queue_setDomainTimeout(q2, baseDomain)

Queue_processDomainEvent(q, baseDomain, fullDomain) ==
  IF baseDomain \in DOMAIN q.displayedDomains
  THEN Queue_updateExistingDomain(q, baseDomain, fullDomain)
  ELSE Queue_createNewDomain(q, baseDomain, fullDomain)

\* one run of the setInterval consumer
\* Faulty variant, for testing the properties: takes the newest event
\* (pop instead of shift).
processQueueItem_TakesNewest(q) ==
  IF ~q.isEnabled \/ q.domainQueue = <<>> THEN q
  ELSE LET domainEvent == q.domainQueue[Len(q.domainQueue)]
       IN Queue_processDomainEvent(
            [q EXCEPT !.domainQueue = SubSeq(@, 1, Len(@) - 1),
                      !.lastProcessed = domainEvent.seq],
            domainEvent.baseDomain, domainEvent.fullDomain)

\* Faulty variant, for testing the properties: a run takes two events off
\* the queue and processes the first.
processQueueItem_SkipsNext(q) ==
  IF ~q.isEnabled \/ q.domainQueue = <<>> THEN q
  ELSE LET domainEvent == Head(q.domainQueue)
       IN Queue_processDomainEvent(
            [q EXCEPT !.domainQueue = IF Len(@) > 1 THEN Tail(Tail(@))
                                      ELSE Tail(@),
                      !.lastProcessed = domainEvent.seq],
            domainEvent.baseDomain, domainEvent.fullDomain)

processQueueItem(q) ==
  IF ~q.isEnabled \/ q.domainQueue = <<>> THEN q
  ELSE LET domainEvent == Head(q.domainQueue)
       IN Queue_processDomainEvent(
            [q EXCEPT !.domainQueue = Tail(@),
                      !.lastProcessed = domainEvent.seq],
            domainEvent.baseDomain, domainEvent.fullDomain)

\* clearAllTags of content.js: as above, and the queue is emptied
Queue_clearAllTags(q) ==
  [clearAllTags(q) EXCEPT !.domainQueue = <<>>]

\* chrome.runtime.onMessage listener of content.js
Queue_onThirdPartyDomain(q, baseDomain, fullDomain) ==
  IF q.isEnabled THEN enqueueDomainEvent(q, baseDomain, fullDomain) ELSE q

\* chrome.storage.onChanged listener of content.js
Queue_onStorageChanged(q, changes) ==
  IF changes.enabled # {}
  THEN LET e == [q EXCEPT !.isEnabled = Value(changes.enabled)]
       IN IF ~e.isEnabled THEN Queue_clearAllTags(e) ELSE e
  ELSE q

(***************************************************************************)
(* Icon resolution.  The tracker's state with three more fields:           *)
(*   faviconCache  domain -> "url" (getFaviconUrl(domain)) or "fallback"   *)
(*   icons         element -> what its icon span shows: "placeholder",     *)
(*                 "url" (the favicon image) or "fallback"                 *)
(*   loads         the calls of loadFavicon that created an Image: the     *)
(*                 element and domain of the loadFaviconInBackground call, *)
(*                 image "loading" until onload or onerror has run, and    *)
(*                 promise "pending" or the value it was resolved with     *)
(* Elements are not collected here, a load's closure names its element by  *)
(* its position in tags.                                                   *)
(***************************************************************************)
IconInit ==
  [isEnabled |-> TRUE,
   timeoutDuration |-> DefaultTimeoutSeconds * MsPerSecond,
   enableTimeout |-> TRUE,
   displayedDomains |-> EmptyMap, domainTimeouts |-> EmptyMap,
   subdomainCounts |-> EmptyMap, tags |-> <<>>, timers |-> {}, now |-> 0,
   faviconCache |-> EmptyMap, icons |-> <<>>, loads |-> {}, eventsSeen |-> 0]

\* the .then callback of loadFaviconInBackground with the resolved value
faviconResolved(k, baseDomain, tagElement, faviconSrc) ==
  IF baseDomain \notin DOMAIN k.displayedDomains THEN k
  ELSE [k EXCEPT !.icons[tagElement] = faviconSrc]

\* Faulty variant, for testing the properties: every call of resolve runs
\* the .then callback, not only the first.
resolve_EveryCall(k, load, value) ==
  IF \A l \in k.loads : l.element # load.element THEN k
  ELSE faviconResolved(
         [k EXCEPT !.loads = {l \in @ : l.element # load.element}
                              \cup {[load EXCEPT !.promise = value]}],
         load.domain, load.element, value)

\* resolve(value) of a load's promise: the first call settles it, and the
\* .then callback runs before any other task
resolve(k, load, value) ==
  IF load \notin k.loads \/ load.promise # "pending" THEN k
  ELSE faviconResolved(
         [k EXCEPT !.loads = (@ \ {load})
                              \cup {[load EXCEPT !.promise = value]}],
         load.domain, load.element, value)

\* Faulty variant, for testing the properties: fetches the image whatever
\* the cache holds.
loadFavicon_AlwaysFetches(k, domain, tagElement) ==
  LET k1 == SetTimeout(k, 0, "favicon", domain, tagElement, FaviconTimeoutMs)
  IN [k1 EXCEPT !.loads = @ \cup {[element |-> tagElement,
                                   domain |-> domain,
                                   image |-> "loading",
                                   promise |-> "pending"]}]

\* loadFavicon(domain), called for tagElement: a cached value resolves the
\* promise at once; otherwise an Image is created and the 3 s timer armed
loadFavicon(k, domain, tagElement) ==
  IF domain \in DOMAIN k.faviconCache
  THEN faviconResolved(k, domain, tagElement, k.faviconCache[domain])
  ELSE LET k1 == SetTimeout(k, 0, "favicon", domain, tagElement,
                            FaviconTimeoutMs)
       IN [k1 EXCEPT !.loads = @ \cup {[element |-> tagElement,
                                        domain |-> domain,
                                        image |-> "loading",
                                        promise |-> "pending"]}]

loadFaviconInBackground(k, baseDomain, tagElement) ==
  IF baseDomain \notin DOMAIN k.displayedDomains THEN k
  ELSE loadFavicon(k, baseDomain, tagElement)

\* createNewDomain with its last call, loadFaviconInBackground, and the
\* placeholder that createDomainTag puts in the icon span
Icon_createNewDomain(k, baseDomain, fullDomain) ==
  LET k1 == createNewDomain(k, baseDomain, fullDomain)
  IN loadFaviconInBackground([k1 EXCEPT !.icons = Append(@, "placeholder")],
                             baseDomain, NextElement(k))

Icon_processDomainEvent(k, baseDomain, fullDomain) ==
  IF baseDomain \in DOMAIN k.displayedDomains
  THEN updateExistingDomain(k, baseDomain, fullDomain)
  ELSE Icon_createNewDomain(k, baseDomain, fullDomain)

\* img.onload (value "url") or img.onerror (value "fallback") of a load
imageSettled(k, load, value) ==
  LET k1 == [k EXCEPT !.faviconCache = MapSet(@, load.domain, value)]
      k2 == resolve(k1, load, value)
  IN [k2 EXCEPT !.loads = {l \in @ : l.element # load.element}]

\* the callback of loadFavicon's 3 s timer
faviconTimeout(k, domain, tagElement) ==
  IF domain \in DOMAIN k.faviconCache THEN k
  ELSE LET k1 == [k EXCEPT !.faviconCache = MapSet(@, domain, "fallback")]
       IN IF \E l \in k1.loads : l.element = tagElement
          THEN resolve(k1, CHOOSE l \in k1.loads : l.element = tagElement,
                       "fallback")
          ELSE k1

(***************************************************************************)
(* The specification: one action per event-loop task                       *)
(***************************************************************************)
NoEvents == [n |-> 0, fulls |-> {}]

Constructed ==
  /\ isEnabled = TRUE
  /\ timeoutDuration = DefaultTimeoutSeconds * MsPerSecond
  /\ enableTimeout = TRUE
  /\ displayedDomains = EmptyMap
  /\ domainTimeouts = EmptyMap
  /\ subdomainCounts = EmptyMap
  /\ tags = <<>>
  /\ timers = {}
  /\ now = 0
  /\ loadPending = TRUE
  /\ checkPending = TRUE
  /\ eventsSince = [d \in BaseDomains |-> NoEvents]
  /\ eventsSeen = 0
  /\ queueTracker = QueueInit
  /\ iconTracker = IconInit
  /\ lastEventAt = EmptyMap

Init == Constructed /\ call = NoCall

\* an element no longer referenced is garbage: it is in the container, or a
\* record holds it, or the closure of a pending removal timer holds it
Referenced(s) ==
  {e \in DOMAIN s.tags :
     \/ s.tags[e].inDOM
     \/ \E d \in DOMAIN s.displayedDomains : s.displayedDomains[d].element = e
     \/ \E t \in s.timers : t.kind = "domRemove" /\ t.element = e}

\* the state with the unreferenced elements collected: an element is named
\* by its position among the elements that remain
Collected(s) ==
  LET keep == Referenced(s)
      Renamed(e) == Cardinality({x \in keep : x <= e})
      Original(i) == CHOOSE e \in keep : Renamed(e) = i
  IN IF keep = DOMAIN s.tags THEN s
     ELSE [s EXCEPT
             !.tags = [i \in 1..Cardinality(keep) |-> s.tags[Original(i)]],
             !.displayedDomains =
                [d \in DOMAIN @ |-> [@[d] EXCEPT !.element = Renamed(@)]],
             !.timers = {[t EXCEPT
                            !.element = IF @ \in keep THEN Renamed(@) ELSE 0,
                            !.forElement = IF @ \in keep THEN Renamed(@) ELSE 0]
                         : t \in @}]

\* the task leaves the tracker in state s; accepted is the set of
\* <<baseDomain, fullDomain>> events the task handed to processDomainEvent
Commit(task, accepted) ==
  \E s \in {Collected(task)} :
  /\ eventsSeen + Cardinality(accepted) <= MaxEvents
  /\ eventsSeen' = eventsSeen + Cardinality(accepted)
  /\ isEnabled' = s.isEnabled
  /\ timeoutDuration' = s.timeoutDuration
  /\ enableTimeout' = s.enableTimeout
  /\ displayedDomains' = s.displayedDomains
  /\ domainTimeouts' = s.domainTimeouts
  /\ subdomainCounts' = s.subdomainCounts
  /\ tags' = s.tags
  /\ timers' = s.timers
  /\ now' = s.now
  /\ UNCHANGED <<queueTracker, iconTracker, call>>
  /\ lastEventAt' =
       [d \in DOMAIN lastEventAt |->
          IF d \notin DOMAIN s.displayedDomains THEN 0
          ELSE IF \E e \in accepted : e[1] = d THEN s.now
          ELSE lastEventAt[d]]
  /\ eventsSince' =
       [d \in BaseDomains |->
          IF d \notin DOMAIN s.displayedDomains THEN NoEvents
          ELSE IF \E e \in accepted : e[1] = d
          THEN [n |-> eventsSince[d].n + 1,
                fulls |-> eventsSince[d].fulls
                            \cup {e[2] : e \in {x \in accepted : x[1] = d}}]
          ELSE eventsSince[d]]

\* history: the task that ran removeDomain(d) from state before to state
\* after notes on the removed record's element how the record went:
\* "evicted" by its expiry timer, "dismissed" by a click on a close button
Noted(before, after, d, how) ==
  IF d \in DOMAIN before.displayedDomains
  THEN [after EXCEPT !.tags[before.displayedDomains[d].element].removal = how]
  ELSE after

\* a THIRD_PARTY_DOMAIN message arrives
ThirdPartyDomainFor(d, f) ==
  /\ Commit(onThirdPartyDomain(State, d, f),
            IF isEnabled THEN {<<d, f>>} ELSE {})
  /\ UNCHANGED <<loadPending, checkPending>>

ThirdPartyDomain ==
  \E d \in BaseDomains : \E f \in FullDomainsOf(d) : ThirdPartyDomainFor(d, f)

\* a TIMEOUT_CHANGED message arrives
TimeoutChangedTo(message) ==
  /\ Commit(onTimeoutChanged(State, message.timeoutSeconds,
                             message.enableTimeout), {})
  /\ UNCHANGED <<loadPending, checkPending>>

TimeoutChanged == \E message \in TimeoutMessageInputs : TimeoutChangedTo(message)

\* chrome.storage reports a change
StorageChangedBy(changes) ==
  /\ Commit(onStorageChanged(State, changes), {})
  /\ UNCHANGED <<loadPending, checkPending>>

StorageChanged == \E changes \in StorageChangeInputs : StorageChangedBy(changes)

\* chrome.storage.local.get delivers the stored settings
LoadTimeoutSettingsCallback ==
  /\ loadPending
  /\ \E ts \in TimeoutSecondsInputs : \E en \in EnableTimeoutInputs :
       Commit(loadTimeoutSettings(State, ts, en), {})
  /\ loadPending' = FALSE
  /\ UNCHANGED checkPending

\* the background page answers GET_ENABLED_STATE (or the request gets no
\* response and the callback changes nothing)
CheckEnabledStateCallback ==
  /\ checkPending
  /\ \/ \E enabled \in BOOLEAN : Commit(checkEnabledState(State, enabled), {})
     \/ Commit(State, {})
  /\ checkPending' = FALSE
  /\ UNCHANGED loadPending

\* the user clicks the close button of a tag that is in the container
CloseButtonClickOn(e) ==
  /\ e \in 1..Len(tags)
  /\ tags[e].inDOM
  /\ Commit(Noted(State, removeTagManually(State, tags[e].domain),
                  tags[e].domain, "dismissed"), {})
  /\ UNCHANGED <<loadPending, checkPending>>

CloseButtonClick == \E e \in 1..Len(tags) : CloseButtonClickOn(e)

\* timers run when due, earliest first
Runnable(t) ==
  /\ t \in timers
  /\ t.due <= now
  /\ \A u \in timers : u.due >= t.due

\* an expiry timer runs its callback: removeDomain(baseDomain)
ExpiryTimerFiresFor(t) ==
  /\ Runnable(t)
  /\ t.kind = "expiry"
  /\ Commit(Noted(State, removeDomain([State EXCEPT !.timers = @ \ {t}],
                                      t.domain),
                  t.domain, "evicted"), {})
  /\ UNCHANGED <<loadPending, checkPending>>

ExpiryTimerFires == \E t \in timers : ExpiryTimerFiresFor(t)

\* the timer armed by removeDomain runs: the tag leaves the DOM
DomRemoveTimerFiresFor(t) ==
  /\ Runnable(t)
  /\ t.kind = "domRemove"
  /\ Commit(removeDomainCallback([State EXCEPT !.timers = @ \ {t}], t.element), {})
  /\ UNCHANGED <<loadPending, checkPending>>

DomRemoveTimerFires == \E t \in timers : DomRemoveTimerFiresFor(t)

Min(S) == CHOOSE x \in S : \A y \in S : x <= y

\* time passes, up to the next due timer or the next point of the grid;
\* no timer that is due stays waiting while the clock moves on, and the two
\* start-up requests are answered before it first moves
Tick ==
  /\ ~loadPending /\ ~checkPending
  /\ \A t \in timers : t.due > now
  /\ LET next == Min({t.due : t \in timers}
                     \cup {(now \div ClockGridMs + 1) * ClockGridMs})
     IN /\ next <= MaxTime
        /\ now' = next
  /\ UNCHANGED <<isEnabled, timeoutDuration, enableTimeout, displayedDomains,
                 domainTimeouts, subdomainCounts, tags, timers, loadPending,
                 checkPending, eventsSince, eventsSeen, queueTracker,
                 iconTracker, lastEventAt, call>>

Next ==
  \/ ThirdPartyDomain
  \/ TimeoutChanged
  \/ StorageChanged
  \/ LoadTimeoutSettingsCallback
  \/ CheckEnabledStateCallback
  \/ CloseButtonClick
  \/ ExpiryTimerFires
  \/ DomRemoveTimerFires
  \/ Tick

Spec == Init /\ [][Next]_vars

(***************************************************************************)
(* The tracker with settings that hold no valid duration: timeoutSeconds   *)
(* is missing (undefined and null behave alike in `timeoutSeconds || 5`    *)
(* and in `changes.timeoutSeconds?.newValue`) or negative                  *)
(***************************************************************************)
InvalidTimeoutSecondsInputs == {{}, {0 - 1}}

\* chrome.storage.local.get delivers settings without a valid duration
InvalidLoadTimeoutSettingsCallbackWith(ts, en) ==
  /\ loadPending
  /\ Commit(loadTimeoutSettings(State, ts, en), {})
  /\ loadPending' = FALSE
  /\ UNCHANGED checkPending

InvalidLoadTimeoutSettingsCallback ==
  \E ts \in InvalidTimeoutSecondsInputs : \E en \in EnableTimeoutInputs :
    InvalidLoadTimeoutSettingsCallbackWith(ts, en)

\* a TIMEOUT_CHANGED message without a valid duration arrives
InvalidTimeoutChanged ==
  \E ts \in InvalidTimeoutSecondsInputs : \E en \in EnableTimeoutInputs :
    TimeoutChangedTo(TimeoutMessage(ts, en))

InvalidSettingsNext ==
  \/ InvalidLoadTimeoutSettingsCallback
  \/ InvalidTimeoutChanged
  \/ ThirdPartyDomain
  \/ CheckEnabledStateCallback
  \/ CloseButtonClick
  \/ DomRemoveTimerFires
  \/ Tick

InvalidSettingsSpec == Init /\ [][InvalidSettingsNext]_vars

(***************************************************************************)
(* The tracker with senders that may leave the domain of a message empty   *)
(* or out                                                                  *)
(***************************************************************************)
MalformedDomainInputs == {{}, {""}}

\* a THIRD_PARTY_DOMAIN message with an empty or missing domain arrives
MalformedThirdPartyDomainFor(domainOpt) ==
  /\ Commit(onMalformedThirdPartyDomain(State, domainOpt, ""),
            IF isEnabled /\ domainOpt # {} THEN {<<Value(domainOpt), "">>}
            ELSE {})
  /\ UNCHANGED <<loadPending, checkPending>>

MalformedThirdPartyDomain ==
  \E domainOpt \in MalformedDomainInputs :
    MalformedThirdPartyDomainFor(domainOpt)

\* the settings and the enabled flag are left as the start-up callbacks
\* set them, and no tag is dismissed
MalformedNext ==
  \/ MalformedThirdPartyDomain
  \/ ThirdPartyDomain
  \/ LoadTimeoutSettingsCallback
  \/ CheckEnabledStateCallback
  \/ ExpiryTimerFires
  \/ DomRemoveTimerFires
  \/ Tick

MalformedSpec == Init /\ [][MalformedNext]_vars

(***************************************************************************)
(* The tracker with settled settings: after the start-up callbacks nothing *)
(* changes the settings or the enabled flag and no tag is dismissed.  The  *)
(* event loop runs every callback that is due: the two start-up requests   *)
(* are answered, a timer whose delay has passed runs, and time passes.     *)
(***************************************************************************)
SettledNext ==
  \/ ThirdPartyDomain
  \/ LoadTimeoutSettingsCallback
  \/ CheckEnabledStateCallback
  \/ ExpiryTimerFires
  \/ DomRemoveTimerFires
  \/ Tick

SettledSpec ==
  /\ Init
  /\ [][SettledNext]_vars
  /\ WF_vars(LoadTimeoutSettingsCallback)
  /\ WF_vars(CheckEnabledStateCallback)
  /\ WF_vars(ExpiryTimerFires)
  /\ WF_vars(DomRemoveTimerFires)
  /\ WF_vars(Tick)

(***************************************************************************)
(* The tracker with the time of each record's last event on record         *)
(***************************************************************************)
AgedInit ==
  /\ isEnabled = TRUE
  /\ timeoutDuration = DefaultTimeoutSeconds * MsPerSecond
  /\ enableTimeout = TRUE
  /\ displayedDomains = EmptyMap
  /\ domainTimeouts = EmptyMap
  /\ subdomainCounts = EmptyMap
  /\ tags = <<>>
  /\ timers = {}
  /\ now = 0
  /\ loadPending = TRUE
  /\ checkPending = TRUE
  /\ eventsSince = [d \in BaseDomains |-> NoEvents]
  /\ eventsSeen = 0
  /\ queueTracker = QueueInit
  /\ iconTracker = IconInit
  /\ lastEventAt = [d \in BaseDomains |-> 0]
  /\ call = NoCall

AgedSpec == AgedInit /\ [][Next]_vars

(***************************************************************************)
(* The queue-based tracker's tasks                                         *)
(***************************************************************************)
TTLTracker ==
  <<isEnabled, timeoutDuration, enableTimeout, displayedDomains,
    domainTimeouts, subdomainCounts, tags, timers, now, loadPending,
    checkPending, eventsSince, eventsSeen, lastEventAt>>

allvars == <<vars, queueTracker, iconTracker, call>>

\* the task leaves the queue-based tracker in state q
QueueCommit(q) ==
  /\ queueTracker' = Collected(q)
  /\ UNCHANGED <<TTLTracker, iconTracker, call>>

\* a THIRD_PARTY_DOMAIN message arrives
QueueThirdPartyDomainFor(d, f) ==
  /\ queueTracker.eventsSeen < MaxEvents
  /\ QueueCommit([Queue_onThirdPartyDomain(queueTracker, d, f)
                    EXCEPT !.eventsSeen = @ + 1])

QueueThirdPartyDomain ==
  \E d \in BaseDomains : \E f \in FullDomainsOf(d) :
    QueueThirdPartyDomainFor(d, f)

\* chrome.storage reports a change
QueueStorageChangedBy(changes) ==
  QueueCommit(Queue_onStorageChanged(queueTracker, changes))

QueueStorageChanged ==
  \E changes \in StorageChangeInputs : QueueStorageChangedBy(changes)

\* the background page answers GET_ENABLED_STATE (or the request gets no
\* response and the callback changes nothing)
QueueCheckEnabledStateCallback ==
  /\ queueTracker.checkPending
  /\ \/ \E enabled \in BOOLEAN :
          QueueCommit([checkEnabledState(queueTracker, enabled)
                         EXCEPT !.checkPending = FALSE])
     \/ QueueCommit([queueTracker EXCEPT !.checkPending = FALSE])

\* the consumer started by startQueueConsumer runs once
QueueConsumerRuns ==
  /\ queueTracker.domainQueue # <<>>
  /\ QueueCommit(processQueueItem(queueTracker))

QueueRunnable(t) ==
  /\ t \in queueTracker.timers
  /\ t.due <= queueTracker.now
  /\ \A u \in queueTracker.timers : u.due >= t.due

\* an expiry timer runs its callback: removeDomain(baseDomain)
QueueExpiryTimerFiresFor(t) ==
  /\ QueueRunnable(t)
  /\ t.kind = "expiry"
  /\ QueueCommit(Noted(queueTracker,
                       removeDomain([queueTracker EXCEPT !.timers = @ \ {t}],
                                    t.domain),
                       t.domain, "evicted"))

QueueExpiryTimerFires ==
  \E t \in queueTracker.timers : QueueExpiryTimerFiresFor(t)

\* the timer armed by removeDomain runs: the tag leaves the DOM
QueueDomRemoveTimerFiresFor(t) ==
  /\ QueueRunnable(t)
  /\ t.kind = "domRemove"
  /\ QueueCommit(removeDomainCallback([queueTracker EXCEPT !.timers = @ \ {t}],
                                      t.element))

QueueDomRemoveTimerFires ==
  \E t \in queueTracker.timers : QueueDomRemoveTimerFiresFor(t)

\* time passes, up to the next due timer or the next point of the grid.
\* The consumer's period (processingRate) is far below the grid, so an
\* enabled tracker has emptied its queue before the clock moves on.
QueueTick ==
  /\ ~queueTracker.checkPending
  /\ queueTracker.isEnabled => queueTracker.domainQueue = <<>>
  /\ \A t \in queueTracker.timers : t.due > queueTracker.now
  /\ LET next == Min({t.due : t \in queueTracker.timers}
                     \cup {(queueTracker.now \div QueueClockGridMs + 1)
                              * QueueClockGridMs})
     IN /\ next <= QueueMaxTime
        /\ queueTracker' = [queueTracker EXCEPT !.now = next]
  /\ UNCHANGED <<TTLTracker, iconTracker, call>>

QueueNext ==
  \/ QueueThirdPartyDomain
  \/ QueueStorageChanged
  \/ QueueCheckEnabledStateCallback
  \/ QueueConsumerRuns
  \/ QueueExpiryTimerFires
  \/ QueueDomRemoveTimerFires
  \/ QueueTick

QueueSpec == Init /\ [][QueueNext]_allvars

\* the consumer is a setInterval callback: while there is an event for it
\* to process it runs again
QueueFairSpec ==
  /\ Init
  /\ [][QueueNext]_allvars
  /\ WF_allvars(QueueConsumerRuns)

\* a page hosts one tracker: once one of the two has taken a step the other
\* stays as constructed
TTLTrackerUntouched ==
  /\ State = [isEnabled |-> TRUE,
              timeoutDuration |-> DefaultTimeoutSeconds * MsPerSecond,
              enableTimeout |-> TRUE, displayedDomains |-> EmptyMap,
              domainTimeouts |-> EmptyMap, subdomainCounts |-> EmptyMap,
              tags |-> <<>>, timers |-> {}, now |-> 0]
  /\ loadPending /\ checkPending /\ eventsSeen = 0

QueueTrackerUntouched == queueTracker = QueueInit

TrackersNext ==
  \/ QueueTrackerUntouched /\ ThirdPartyDomain
  \/ QueueTrackerUntouched /\ TimeoutChanged
  \/ QueueTrackerUntouched /\ StorageChanged
  \/ QueueTrackerUntouched /\ LoadTimeoutSettingsCallback
  \/ QueueTrackerUntouched /\ CheckEnabledStateCallback
  \/ QueueTrackerUntouched /\ CloseButtonClick
  \/ QueueTrackerUntouched /\ ExpiryTimerFires
  \/ QueueTrackerUntouched /\ DomRemoveTimerFires
  \/ QueueTrackerUntouched /\ Tick
  \/ TTLTrackerUntouched /\ QueueThirdPartyDomain
  \/ TTLTrackerUntouched /\ QueueStorageChanged
  \/ TTLTrackerUntouched /\ QueueCheckEnabledStateCallback
  \/ TTLTrackerUntouched /\ QueueConsumerRuns
  \/ TTLTrackerUntouched /\ QueueExpiryTimerFires
  \/ TTLTrackerUntouched /\ QueueDomRemoveTimerFires
  \/ TTLTrackerUntouched /\ QueueTick

TrackersSpec == Init /\ [][TrackersNext]_allvars

(***************************************************************************)
(* The tasks of the tracker with icon resolution: events, dismissals, the  *)
(* timers, and the image events of the pending loads.  Settings stay the   *)
(* constructor's.                                                          *)
(***************************************************************************)
IconCommit(k) ==
  /\ iconTracker' = k
  /\ UNCHANGED <<TTLTracker, queueTracker, call>>

\* a THIRD_PARTY_DOMAIN message arrives
IconThirdPartyDomainFor(d, f) ==
  /\ iconTracker.eventsSeen < MaxEvents
  /\ IconCommit([Icon_processDomainEvent(iconTracker, d, f)
                   EXCEPT !.eventsSeen = @ + 1])

\* icon resolution is per domain: the events here are all for one domain
IconDomains == {"a.com"}

IconThirdPartyDomain ==
  \E d \in IconDomains : \E f \in FullDomainsOf(d) :
    IconThirdPartyDomainFor(d, f)

\* the user clicks the close button of a tag that is in the container
IconCloseButtonClickOn(e) ==
  /\ iconTracker.tags[e].inDOM
  /\ IconCommit(removeTagManually(iconTracker, iconTracker.tags[e].domain))

IconCloseButtonClick ==
  \E e \in 1..Len(iconTracker.tags) : IconCloseButtonClickOn(e)

\* the image of a pending load arrives
ImageLoadsFor(load) ==
  /\ load.image = "loading"
  /\ IconCommit(imageSettled(iconTracker, load, "url"))

ImageLoads == \E load \in iconTracker.loads : ImageLoadsFor(load)

\* the image of a pending load fails
ImageFailsFor(load) ==
  /\ load.image = "loading"
  /\ IconCommit(imageSettled(iconTracker, load, "fallback"))

ImageFails == \E load \in iconTracker.loads : ImageFailsFor(load)

IconRunnable(t) ==
  /\ t \in iconTracker.timers
  /\ t.due <= iconTracker.now
  /\ \A u \in iconTracker.timers : u.due >= t.due

\* the 3 s timer of a load runs
FaviconTimeoutFiresFor(t) ==
  /\ IconRunnable(t)
  /\ t.kind = "favicon"
  /\ IconCommit(faviconTimeout([iconTracker EXCEPT !.timers = @ \ {t}],
                               t.domain, t.element))

FaviconTimeoutFires ==
  \E t \in iconTracker.timers : FaviconTimeoutFiresFor(t)

\* an expiry timer runs its callback: removeDomain(baseDomain)
IconExpiryTimerFiresFor(t) ==
  /\ IconRunnable(t)
  /\ t.kind = "expiry"
  /\ IconCommit(removeDomain([iconTracker EXCEPT !.timers = @ \ {t}],
                             t.domain))

IconExpiryTimerFires ==
  \E t \in iconTracker.timers : IconExpiryTimerFiresFor(t)

\* the timer armed by removeDomain runs: the tag leaves the DOM
IconDomRemoveTimerFiresFor(t) ==
  /\ IconRunnable(t)
  /\ t.kind = "domRemove"
  /\ IconCommit(removeDomainCallback([iconTracker EXCEPT !.timers = @ \ {t}],
                                     t.element))

IconDomRemoveTimerFires ==
  \E t \in iconTracker.timers : IconDomRemoveTimerFiresFor(t)

\* time passes, up to the next due timer
IconTick ==
  /\ iconTracker.timers # {}
  /\ \A t \in iconTracker.timers : t.due > iconTracker.now
  /\ LET next == Min({t.due : t \in iconTracker.timers})
     IN /\ next <= IconMaxTime
        /\ IconCommit([iconTracker EXCEPT !.now = next])

IconNext ==
  \/ IconThirdPartyDomain
  \/ IconCloseButtonClick
  \/ ImageLoads
  \/ ImageFails
  \/ FaviconTimeoutFires
  \/ IconExpiryTimerFires
  \/ IconDomRemoveTimerFires
  \/ IconTick

IconSpec == Init /\ [][IconNext]_allvars

\* the event loop runs every timer callback that is due and time passes;
\* an image may never arrive, so nothing is assumed of onload and onerror
IconFairSpec ==
  /\ Init
  /\ [][IconNext]_allvars
  /\ WF_allvars(FaviconTimeoutFires)
  /\ WF_allvars(IconExpiryTimerFires)
  /\ WF_allvars(IconDomRemoveTimerFires)
  /\ WF_allvars(IconTick)

(***************************************************************************)
(* getDomainColorClass step by step: a call with some text, one turn of    *)
(* its loop at a time, then the lookup of the class                        *)
(***************************************************************************)
ColorInit ==
  /\ Constructed
  /\ call \in {[method |-> "getDomainColorClass", domain |-> t, i |-> 0,
                 hash |-> Int32Zero, result |-> "running"] : t \in DomainTexts}

\* for (let i = 0; i < domain.length; i++) { ... }
HashLoopTurn ==
  /\ call.result = "running"
  /\ call.i < Len(call.domain)
  /\ call' = [call EXCEPT !.i = @ + 1,
                          !.hash = HashChar(call.domain[call.i + 1])[@]]
  /\ UNCHANGED <<TTLTracker, queueTracker, iconTracker>>

\* return this.colorClasses[Math.abs(hash) % this.colorClasses.length]
ColorClassReturned ==
  /\ call.result = "running"
  /\ call.i = Len(call.domain)
  /\ call' = [call EXCEPT !.result = ColorClassAt(ColorIndex(call.hash))]
  /\ UNCHANGED <<TTLTracker, queueTracker, iconTracker>>

ColorNext ==
  \/ HashLoopTurn
  \/ ColorClassReturned

ColorSpec == ColorInit /\ [][ColorNext]_allvars

(***************************************************************************)
(* calculateOptimalTagWidth step by step: a call with some text and count  *)
(* on a canvas with some font: the two measurements, then the result       *)
(***************************************************************************)
WidthInit ==
  /\ Constructed
  /\ call \in {[method |-> "calculateOptimalTagWidth", font |-> f,
                 domainText |-> t, count |-> c, at |-> "called",
                 domainWidth |-> 0, countWidth |-> 0, result |-> 0] :
                  f \in Fonts, t \in DomainTexts, c \in Counts}

\* const domainWidth = this.measureTextWidth(domainText, 12)
DomainTextMeasured ==
  /\ call.at = "called"
  /\ call' = [call EXCEPT
                !.at = "domainMeasured",
                !.domainWidth = measureTextWidth(call.font, call.domainText, 12)]
  /\ UNCHANGED <<TTLTracker, queueTracker, iconTracker>>

\* const countWidth = this.measureTextWidth(count.toString(), 10)
CountTextMeasured ==
  /\ call.at = "domainMeasured"
  /\ call' = [call EXCEPT
                !.at = "countMeasured",
                !.countWidth =
                   measureTextWidth(call.font, CountText(call.count), 10)]
  /\ UNCHANGED <<TTLTracker, queueTracker, iconTracker>>

\* return Math.max(MIN_TAG_WIDTH, Math.min(MAX_TAG_WIDTH, Math.ceil(...)))
WidthReturned ==
  /\ call.at = "countMeasured"
  /\ call' = [call EXCEPT
                !.at = "returned",
                !.result = calculateOptimalTagWidth(call.font, call.domainText,
                                                    call.count)]
  /\ UNCHANGED <<TTLTracker, queueTracker, iconTracker>>

WidthNext ==
  \/ DomainTextMeasured
  \/ CountTextMeasured
  \/ WidthReturned

WidthSpec == WidthInit /\ [][WidthNext]_allvars

(***************************************************************************)
(* getBaseDomain of the service worker (background.js): a hostname is a    *)
(* sequence of characters, null and undefined are the empty option         *)
(***************************************************************************)
MaxHostLen == 8

HostnameInputs ==
  LET alphabet == {"a", "b", "."}
      hostnames == UNION {[1..k -> alphabet] : k \in 0..MaxHostLen}
  IN {{}} \cup {{h} : h \in hostnames}

\* !domain: null, undefined and the empty string
IsFalsy(domain) == IF domain = {} THEN TRUE ELSE Value(domain) = <<>>

\* domain.split('.')
RECURSIVE split(_)
split(domain) ==
  LET dots == {i \in 1..Len(domain) : domain[i] = "."}
  IN IF dots = {} THEN <<domain>>
     ELSE LET first == CHOOSE i \in dots : \A j \in dots : i <= j
          IN <<SubSeq(domain, 1, first - 1)>>
               \o split(SubSeq(domain, first + 1, Len(domain)))

\* parts.slice(-n)
slice(parts, n) ==
  SubSeq(parts, IF Len(parts) > n THEN Len(parts) - n + 1 ELSE 1, Len(parts))

\* parts.join('.')
RECURSIVE join(_)
join(parts) ==
  IF Len(parts) = 0 THEN <<>>
  ELSE IF Len(parts) = 1 THEN parts[1]
  ELSE parts[1] \o <<".">> \o join(Tail(parts))

getBaseDomain_AlwaysTwoLabels(domain) ==
  IF IsFalsy(domain) THEN {}
  ELSE LET parts == split(Value(domain))
       IN IF Len(parts) < 2 THEN domain
          ELSE {join(slice(parts, 2))}

getBaseDomain(domain) ==
  IF IsFalsy(domain) THEN {}
  ELSE LET parts == split(Value(domain))
       IN IF Len(parts) < 2 THEN domain
          ELSE IF Len(parts) >= 3 /\ Len(parts[Len(parts) - 1]) <= 3
               THEN {join(slice(parts, 3))}
               ELSE {join(slice(parts, 2))}

BaseDomainInit ==
  /\ Constructed
  /\ call \in {[method |-> "getBaseDomain", domain |-> d, at |-> "called",
                 parts |-> <<>>, result |-> {}] : d \in HostnameInputs}

\* if (!domain) return null
NullReturned ==
  /\ call.at = "called"
  /\ IsFalsy(call.domain)
  /\ call' = [call EXCEPT !.at = "returned",
                          !.result = getBaseDomain(call.domain)]
  /\ UNCHANGED <<TTLTracker, queueTracker, iconTracker>>

\* const parts = domain.split('.')
HostnameSplit ==
  /\ call.at = "called"
  /\ ~IsFalsy(call.domain)
  /\ call' = [call EXCEPT !.at = "split",
                          !.parts = split(Value(call.domain))]
  /\ UNCHANGED <<TTLTracker, queueTracker, iconTracker>>

\* return domain / parts.slice(-3).join('.') / parts.slice(-2).join('.')
BaseDomainReturned ==
  /\ call.at = "split"
  /\ call' = [call EXCEPT !.at = "returned",
                          !.result = getBaseDomain(call.domain)]
  /\ UNCHANGED <<TTLTracker, queueTracker, iconTracker>>

BaseDomainNext ==
  \/ NullReturned
  \/ HostnameSplit
  \/ BaseDomainReturned

BaseDomainSpec == BaseDomainInit /\ [][BaseDomainNext]_allvars

(***************************************************************************)
(* Properties                                                              *)
(***************************************************************************)
ExpiryTimersOf(ts, d) == {t \in ts : t.kind = "expiry" /\ t.domain = d}

\* the tags of a domain that are shown and not being torn down
LiveTags(d) ==
  {e \in 1..Len(tags) :
     tags[e].domain = d /\ tags[e].inDOM /\ ~tags[e].removing}

\* the tags of a domain that are in their removal animation
RemovingTags(d) ==
  {e \in 1..Len(tags) :
     tags[e].domain = d /\ tags[e].inDOM /\ tags[e].removing}

\* C1: at most one record per baseDomain.  Every tag that was created and
\* not removed is the element of the registry's one record for its domain:
\* no event created a second record (and tag) for a domain that had one.
C1_OneRecordPerBaseDomain ==
  \A d \in BaseDomains :
    IF d \in DOMAIN displayedDomains
    THEN /\ LiveTags(d) = {displayedDomains[d].element}
         /\ eventsSince[d].n >= 1
    ELSE LiveTags(d) = {}

\* a record that was created, removed, created again and then updated
C1_Witness ==
  /\ "a.com" \in DOMAIN displayedDomains
  /\ displayedDomains["a.com"].count = 2
  /\ RemovingTags("a.com") # {}

TimeoutActive == enableTimeout /\ timeoutDuration > 0

\* C3: each live record has exactly one armed expiry timer if enableTimeout
\* is true and timeoutDuration > 0, and none otherwise.
C3_TimerIffEnabled ==
  \A d \in DOMAIN displayedDomains :
    Cardinality(ExpiryTimersOf(timers, d)) = IF TimeoutActive THEN 1 ELSE 0

\* C4: no two expiry timers are armed for the same baseDomain, and the one
\* that is armed is the one domainTimeouts holds.
C4_NoOverlappingTimers ==
  \A d \in BaseDomains :
    /\ Cardinality(ExpiryTimersOf(timers, d)) <= 1
    /\ \A t \in ExpiryTimersOf(timers, d) :
         d \in DOMAIN domainTimeouts /\ domainTimeouts[d] = t.id

\* a record that was updated at a later time than it was created, whose timer
\* was armed by that update, next to another record with its own timer
C4_Witness ==
  /\ DOMAIN displayedDomains = BaseDomains
  /\ displayedDomains["a.com"].count = 2
  /\ \E t \in ExpiryTimersOf(timers, "a.com") :
       t.forCount = 2 /\ t.due > t.delay
  /\ ExpiryTimersOf(timers, "b.com") # {}

\* C5: with TTL enabled and duration T > 0, an event for an existing record
\* leaves exactly one armed timer for the key, armed by this event (it
\* carries the new count) and due T after it, the earlier timer being gone;
\* and a timer that removes a record was armed at or after the record's last
\* event (it carries the record's count) and has run its full delay, so the
\* record is not removed less than T after an event.
C5_EventRearmsTimer ==
  [][\A d \in BaseDomains :
       /\ (/\ d \in DOMAIN displayedDomains
           /\ TimeoutActive
           /\ eventsSince'[d].n = eventsSince[d].n + 1)
          => \E t \in timers' :
               /\ ExpiryTimersOf(timers', d) = {t}
               /\ domainTimeouts'[d] = t.id
               /\ t.forCount = displayedDomains[d].count + 1
               /\ t.delay = timeoutDuration
               /\ t.due = now + timeoutDuration
       /\ \A t \in ExpiryTimersOf(timers, d) :
            (d \in DOMAIN displayedDomains /\ ExpiryTimerFiresFor(t))
            => /\ t.forCount = displayedDomains[d].count
               /\ now >= t.due
    ]_vars

\* a record whose second event came later than its first and re-armed the
\* timer; a timer armed at time 0 with the same delay would have run by now
C5_Witness ==
  /\ "a.com" \in DOMAIN displayedDomains
  /\ displayedDomains["a.com"].count = 2
  /\ \E t \in ExpiryTimersOf(timers, "a.com") :
       /\ t.forCount = 2
       /\ t.due - t.delay > 0
       /\ now >= t.delay
       /\ now < t.due

\* C6: whenever a timer callback removes a record, the timer is the one
\* domainTimeouts holds for the key, it was armed for this record (not for an
\* earlier record of the key) and no event for the key came after it was
\* armed.
C6_OnlyCurrentTimerEvicts ==
  [][\A t \in timers :
       (ExpiryTimerFiresFor(t) /\ t.domain \in DOMAIN displayedDomains)
       => /\ t.domain \in DOMAIN domainTimeouts
          /\ domainTimeouts[t.domain] = t.id
          /\ t.forElement = displayedDomains[t.domain].element
          /\ t.forCount = displayedDomains[t.domain].count
    ]_vars

\* a record evicted by the timer its second event armed, and a fresh
\* record of the same key next to the evicted tag
C6_Witness ==
  /\ "a.com" \in DOMAIN displayedDomains
  /\ \E e \in RemovingTags("a.com") :
       tags[e].removal = "evicted" /\ tags[e].count = 2

\* the two entry points of removal
Invoke(method, s, d) ==
  IF method = "removeDomain" THEN removeDomain(s, d)
  ELSE removeTagManually(s, d)

\* C7: removal is idempotent.  Of two removal calls for one key (removeDomain
\* or removeTagManually, in either order, or one of them twice) the first
\* removes the record and starts the removal animation if there is a record
\* and changes nothing otherwise; the second changes nothing; the key has no
\* entry afterwards.
C7_RemovalIdempotent ==
  \A d \in BaseDomains :
    \A first \in {"removeDomain", "removeTagManually"} :
      \A second \in {"removeDomain", "removeTagManually"} :
        LET s1 == Invoke(first, State, d)
            s2 == Invoke(second, s1, d)
        IN /\ d \notin DOMAIN s1.displayedDomains
           /\ d \notin DOMAIN s1.subdomainCounts
           /\ d \notin DOMAIN s1.domainTimeouts
           /\ s2 = s1
           /\ IF d \in DOMAIN displayedDomains
              THEN LET e == displayedDomains[d].element
                   IN /\ s1.tags[e].removing
                      /\ Cardinality({t \in s1.timers \ timers :
                                        t.kind = "domRemove"}) = 1
                      /\ \A t \in s1.timers \ timers : t.element = e
              ELSE s1 = State

\* a dismissed tag still in the container with no record for its key: a
\* second click on it, or a timer callback for the key, finds no record
C7_Witness ==
  \E e \in 1..Len(tags) :
    /\ tags[e].inDOM /\ tags[e].removing
    /\ tags[e].removal = "dismissed"
    /\ tags[e].domain \notin DOMAIN displayedDomains
    /\ \E t \in timers : t.kind = "domRemove" /\ t.element = e

\* C8: removeDomain takes the record out of displayedDomains and
\* subdomainCounts at once, while the tag stays in the container until the
\* 300 ms timer runs; no record's element is a tag being torn down, and an
\* event for the key processed after removeDomain (at once or at any later
\* point of the window) makes a new record with count 1 on a new element and
\* touches no existing tag.
C8_RemovalIsSynchronous ==
  /\ \A d \in DOMAIN displayedDomains :
       /\ tags[displayedDomains[d].element].inDOM
       /\ ~tags[displayedDomains[d].element].removing
  /\ \A d \in BaseDomains : \A f \in FullDomainsOf(d) :
       LET s1 == removeDomain(State, d)
           s2 == processDomainEvent(s1, d, f)
       IN /\ d \notin DOMAIN s1.displayedDomains
          /\ d \notin DOMAIN s1.subdomainCounts
          /\ d \in DOMAIN displayedDomains
             => /\ s1.tags[displayedDomains[d].element].inDOM
                /\ \E t \in s1.timers :
                     /\ t.kind = "domRemove"
                     /\ t.element = displayedDomains[d].element
                     /\ t.due = now + RemovalAnimationMs
          /\ d \in DOMAIN s2.displayedDomains
          /\ s2.displayedDomains[d].count = 1
          /\ s2.displayedDomains[d].element = Len(s1.tags) + 1
          /\ s2.subdomainCounts[d] = {f}
          /\ \A e \in 1..Len(s1.tags) : s2.tags[e] = s1.tags[e]

\* a tag with count 2 in its removal animation, and the record an event made
\* for the same key during the animation
C8_Witness ==
  /\ "a.com" \in DOMAIN displayedDomains
  /\ displayedDomains["a.com"].count = 1
  /\ \E e \in RemovingTags("a.com") :
       /\ tags[e].removal = "dismissed"
       /\ tags[e].count = 2
       /\ e # displayedDomains["a.com"].element
       /\ \E t \in timers : t.kind = "domRemove" /\ t.element = e

\* C9: after removeTagManually(baseDomain) for a live record there is no
\* armed expiry timer for the key and no entry for it in domainTimeouts,
\* whatever the TTL settings; and while a dismissed key has no new record
\* no timer is armed for it, so none runs later.
C9_DismissalCancelsTimer ==
  /\ \A d \in DOMAIN displayedDomains :
       LET s1 == removeTagManually(State, d)
       IN /\ d \notin DOMAIN s1.domainTimeouts
          /\ ExpiryTimersOf(s1.timers, d) = {}
          /\ \A other \in BaseDomains \ {d} :
               ExpiryTimersOf(s1.timers, other) = ExpiryTimersOf(timers, other)
  /\ \A e \in 1..Len(tags) :
       (tags[e].removal = "dismissed" /\ tags[e].domain \notin DOMAIN displayedDomains)
       => /\ tags[e].domain \notin DOMAIN domainTimeouts
          /\ ExpiryTimersOf(timers, tags[e].domain) = {}

\* TTL is on, a.com was dismissed and has no timer, b.com keeps its own
C9_Witness ==
  /\ TimeoutActive
  /\ "a.com" \notin DOMAIN displayedDomains
  /\ \E e \in RemovingTags("a.com") : tags[e].removal = "dismissed"
  /\ ExpiryTimersOf(timers, "a.com") = {}
  /\ "b.com" \in DOMAIN displayedDomains
  /\ ExpiryTimersOf(timers, "b.com") # {}

\* C10: updateTimeoutSettings with enableTimeout = false cancels every armed
\* expiry timer and empties domainTimeouts; displayedDomains, subdomainCounts,
\* every count, the tags and the pending DOM removals stay as they were.
C10_DisableCancelsAllTimers ==
  \A ts \in TimeoutSecondsInputs :
    LET s1 == updateTimeoutSettings(State, ts, {FALSE})
    IN /\ ~s1.enableTimeout
       /\ s1.domainTimeouts = EmptyMap
       /\ \A t \in s1.timers : t.kind = "domRemove"
       /\ {t \in s1.timers : t.kind = "domRemove"}
            = {t \in timers : t.kind = "domRemove"}
       /\ s1.displayedDomains = displayedDomains
       /\ s1.subdomainCounts = subdomainCounts
       /\ s1.tags = tags

\* both records live with TTL switched off and no timer left; the settings
\* have not been loaded yet, so it was updateTimeoutSettings that switched
\* TTL off
C10_Witness ==
  /\ loadPending
  /\ ~enableTimeout
  /\ DOMAIN displayedDomains = BaseDomains
  /\ displayedDomains["a.com"].count = 2
  /\ domainTimeouts = EmptyMap
  /\ \A t \in timers : t.kind # "expiry"

\* C11: while enableTimeout is false (before and after the step), an
\* accepted event, creating or updating, leaves no expiry timer and no
\* domainTimeouts entry for its key; a key without armed timer stays without
\* one; and a record without armed timer leaves the registry only through a
\* dismissal of its tag or through clearAllTags.
C11_NoTimerWhileDisabled ==
  [][\A d \in BaseDomains :
       (~enableTimeout /\ ~enableTimeout')
       => /\ eventsSince'[d].n = eventsSince[d].n + 1
             => /\ ExpiryTimersOf(timers', d) = {}
                /\ d \notin DOMAIN domainTimeouts'
          /\ ExpiryTimersOf(timers, d) = {}
             => /\ ExpiryTimersOf(timers', d) = {}
                /\ (d \in DOMAIN displayedDomains
                    /\ d \notin DOMAIN displayedDomains')
                   => \/ /\ displayedDomains[d].element \in 1..Len(tags')
                         /\ tags'[displayedDomains[d].element].removal
                              = "dismissed"
                      \/ /\ ~isEnabled'
                         /\ displayedDomains' = EmptyMap
    ]_vars

\* TTL is off, a.com got two events and b.com one, no timer is armed, and
\* more time has passed than the timeout the settings hold
C11_Witness ==
  /\ ~enableTimeout
  /\ DOMAIN displayedDomains = BaseDomains
  /\ displayedDomains["a.com"].count = 2
  /\ timers = {}
  /\ now >= timeoutDuration

\* C12: updateTimeoutSettings with TTL enabled and a positive duration arms,
\* for every live record without armed timer, one timer with the new
\* duration, and leaves the timer of every other record as it is: the same
\* id, the same due time.
C12_EnableKeepsArmedTimers ==
  \A ts \in TimeoutSecondsInputs : \A en \in EnableTimeoutInputs \ {{FALSE}} :
    LET s1 == updateTimeoutSettings(State, ts, en)
    IN DurationOf(ts) > 0
       => /\ s1.enableTimeout
          /\ s1.timeoutDuration = DurationOf(ts)
          /\ s1.displayedDomains = displayedDomains
          /\ \A d \in DOMAIN displayedDomains :
               IF ExpiryTimersOf(timers, d) = {}
               THEN \E t \in s1.timers :
                      /\ ExpiryTimersOf(s1.timers, d) = {t}
                      /\ t.delay = DurationOf(ts)
                      /\ t.due = now + DurationOf(ts)
                      /\ d \in DOMAIN s1.domainTimeouts
                      /\ s1.domainTimeouts[d] = t.id
               ELSE /\ ExpiryTimersOf(s1.timers, d) = ExpiryTimersOf(timers, d)
                    /\ s1.domainTimeouts[d] = domainTimeouts[d]

\* the settings were changed to 1 s by updateTimeoutSettings (they have not
\* been loaded yet) and a.com still has the timer armed with 5 s, next to
\* b.com with a timer of 1 s
C12_Witness ==
  /\ loadPending
  /\ enableTimeout
  /\ timeoutDuration = MsPerSecond
  /\ \E t \in ExpiryTimersOf(timers, "a.com") :
       t.delay = DefaultTimeoutSeconds * MsPerSecond
  /\ \E t \in ExpiryTimersOf(timers, "b.com") : t.delay = MsPerSecond

\* C13: when the configuration supplies a duration of zero with TTL
\* enabled, through the loadTimeoutSettings callback or through
\* updateTimeoutSettings, the tracker is left as with TTL disabled: the
\* condition under which events arm timers is false, and no record that had
\* no armed timer has one now.
C13_ZeroDurationDisables ==
  [][\A en \in EnableTimeoutInputs \ {{FALSE}} :
       (\/ TimeoutChangedTo(TimeoutMessage({0}, en))
        \/ /\ loadPending /\ ~loadPending'
           /\ UNCHANGED checkPending
           /\ Commit(loadTimeoutSettings(State, {0}, en), {}))
       => /\ ~(enableTimeout' /\ timeoutDuration' > 0)
          /\ \A d \in DOMAIN displayedDomains :
               ExpiryTimersOf(timers, d) = {}
               => ExpiryTimersOf(timers', d) = {}
    ]_vars


\* C14: clearAllTags leaves the tracker empty.  In every reachable state,
\* the storage change that disables the extension (its listener runs
\* clearAllTags) leaves displayedDomains, domainTimeouts and subdomainCounts
\* empty (and domainQueue too in the queue-based tracker) and no expiry
\* timer armed, so no timer armed before the call is left to remove a
\* record created after it.
C14_ClearAllTagsEmptiesTracker ==
  \A changes \in StorageChangeInputs :
    changes.enabled = {FALSE}
    => /\ LET s1 == onStorageChanged(State, changes)
          IN /\ s1.displayedDomains = EmptyMap
             /\ s1.domainTimeouts = EmptyMap
             /\ s1.subdomainCounts = EmptyMap
             /\ \A d \in BaseDomains : ExpiryTimersOf(s1.timers, d) = {}
       /\ LET q1 == Queue_onStorageChanged(queueTracker, changes)
          IN /\ q1.displayedDomains = EmptyMap
             /\ q1.domainTimeouts = EmptyMap
             /\ q1.subdomainCounts = EmptyMap
             /\ q1.domainQueue = <<>>
             /\ \A d \in BaseDomains : ExpiryTimersOf(q1.timers, d) = {}

\* the extension has been disabled by a storage change while every event of
\* the run had been accepted and, the settings being the constructor's,
\* had armed or re-armed a timer: nothing is left of the records at time 0
C14_Witness ==
  /\ ~isEnabled /\ checkPending /\ loadPending /\ enableTimeout
  /\ eventsSeen = MaxEvents
  /\ now = 0
  /\ displayedDomains = EmptyMap /\ domainTimeouts = EmptyMap
  /\ subdomainCounts = EmptyMap /\ timers = {}


\* C15: while isEnabled is false a THIRD_PARTY_DOMAIN message changes
\* nothing: no record, count, subdomain set, tag or timer of the tracker
\* changes; in the queue-based tracker the message is not enqueued and a run
\* of the consumer dequeues and processes nothing.
C15_DisabledEventIsNoOp ==
  /\ ~isEnabled
     => \A d \in BaseDomains : \A f \in FullDomainsOf(d) :
          onThirdPartyDomain(State, d, f) = State
  /\ ~queueTracker.isEnabled
     => /\ \A d \in BaseDomains : \A f \in FullDomainsOf(d) :
             /\ Queue_onThirdPartyDomain(queueTracker, d, f) = queueTracker
             /\ enqueueDomainEvent(queueTracker, d, f) = queueTracker
        /\ processQueueItem(queueTracker) = queueTracker

\* the queue-based tracker was disabled with an event still queued and a
\* record shown; every message of the run has arrived and time has passed
C15_Witness ==
  /\ ~queueTracker.isEnabled
  /\ queueTracker.eventsSeen = MaxEvents
  /\ Len(queueTracker.domainQueue) = 1
  /\ DOMAIN queueTracker.displayedDomains = {"a.com"}
  /\ ExpiryTimersOf(queueTracker.timers, "a.com") # {}
  /\ queueTracker.now = QueueClockGridMs


\* C16: an event whose baseDomain is empty or missing is rejected: the task
\* that handles it adds no record to displayedDomains, no entry to
\* subdomainCounts or domainTimeouts, and changes no existing record.
C16_MalformedEventRejected ==
  [][\A domainOpt \in MalformedDomainInputs :
       MalformedThirdPartyDomainFor(domainOpt)
       => UNCHANGED <<displayedDomains, subdomainCounts, domainTimeouts>>
    ]_vars


C18_RecordEventuallyEvicted ==
  /\ [](\A d \in DOMAIN displayedDomains :
         (TimeoutActive /\ ~loadPending)
         => Cardinality(ExpiryTimersOf(timers, d)) = 1)
  /\ \A d \in BaseDomains : \A k \in 1..(MaxEvents + 1) :
       (/\ d \in DOMAIN displayedDomains
        /\ eventsSince[d].n = k
        /\ \E t \in ExpiryTimersOf(timers, d) : t.due <= MaxTime)
       ~> (\/ d \notin DOMAIN displayedDomains
           \/ eventsSince[d].n > k)
  /\ [][\A t \in timers :
          (ExpiryTimerFiresFor(t) /\ t.domain \in DOMAIN displayedDomains)
          => /\ t.domain \notin DOMAIN displayedDomains'
             /\ ExpiryTimersOf(timers', t.domain) = {}
             /\ tags'[displayedDomains[t.domain].element].removal = "evicted"
       ]_vars


\* the one event of the run created a.com's record at time 0 with a TTL of
\* one second; at one second the record is gone and its tag, marked as
\* evicted, is in its removal animation
C18_Witness ==
  /\ enableTimeout /\ timeoutDuration = MsPerSecond
  /\ eventsSeen = 1
  /\ now = MsPerSecond
  /\ displayedDomains = EmptyMap
  /\ Len(tags) = 1
  /\ tags[1].domain = "a.com" /\ tags[1].removal = "evicted"
  /\ tags[1].removing /\ tags[1].inDOM


\* C19: whatever the configuration changes, whenever the TTL is enabled
\* with a duration T > 0, no record is in the registry more than T after
\* the last event for its baseDomain.
C19_NoRecordOlderThanTTL ==
  TimeoutActive
  => \A d \in DOMAIN displayedDomains :
       now <= lastEventAt[d] + timeoutDuration


\* C20: a completed icon resolution changes a tag's icon only if the record
\* it was started for is still in the registry: whenever the icon of an
\* element changes, that element is the element of the registry's record
\* for its domain, never the element of a record that was removed (also
\* when a new record for the same baseDomain exists by then).
C20_IconOnlyForLiveRecord ==
  [][\A e \in 1..Len(iconTracker.icons) :
       iconTracker'.icons[e] # iconTracker.icons[e]
       => LET d == iconTracker.tags[e].domain
          IN /\ d \in DOMAIN iconTracker.displayedDomains
             /\ iconTracker.displayedDomains[d].element = e
    ]_allvars


\* C21: for each domain the first of image success, image failure and the
\* 3 s timeout writes faviconCache, and the entry is never overwritten
\* afterwards: an entry, once present, keeps its value in every later step.
C21_CacheWrittenOnce ==
  [][\A d \in DOMAIN iconTracker.faviconCache :
       /\ d \in DOMAIN iconTracker'.faviconCache
       /\ iconTracker'.faviconCache[d] = iconTracker.faviconCache[d]
    ]_allvars


\* C22: icon resolution is single-flight per domain: a call of loadFavicon
\* for a domain that has a call still pending starts no second image fetch,
\* so at most one image fetch per domain is in flight, and the calls of one
\* domain resolve with the same value.
C22_SingleFlight ==
  \A l1, l2 \in iconTracker.loads :
    l1.domain = l2.domain
    => /\ (l1.image = "loading" /\ l2.image = "loading") => l1 = l2
       /\ (l1.promise # "pending" /\ l2.promise # "pending")
          => l1.promise = l2.promise


\* the promise of the load started for element e is not resolved yet
LoadPending(e) ==
  \E l \in iconTracker.loads : l.element = e /\ l.promise = "pending"

\* C23: every promise returned by loadFavicon eventually resolves (with the
\* URL or the fallback), also when the image never arrives and when several
\* calls for one domain are pending: a pending load whose 3 s timer is due
\* within the modelled time is eventually not pending any more.
C23_EveryLoadResolves ==
  \A e \in 1..MaxEvents :
    (/\ LoadPending(e)
     /\ \E t \in iconTracker.timers :
          t.kind = "favicon" /\ t.element = e /\ t.due <= IconMaxTime)
    ~> ~LoadPending(e)


FaviconTimers(k) == {t \in k.timers : t.kind = "favicon"}

\* C24: once faviconCache holds a result for a domain, a later
\* loadFavicon(domain) resolves with the cached value and starts no image
\* fetch: the task that creates a tag for a cached domain starts no load,
\* arms no 3 s timer, leaves the cache as it is, and the new tag shows the
\* cached value when the task is over.
C24_CachedValueServed ==
  [][LET k == iconTracker
         e == Len(iconTracker.tags) + 1
     IN (/\ Len(iconTracker'.tags) = e
         /\ iconTracker'.tags[e].domain \in DOMAIN k.faviconCache)
        => /\ iconTracker'.loads = k.loads
           /\ FaviconTimers(iconTracker') = FaviconTimers(k)
           /\ iconTracker'.faviconCache = k.faviconCache
           /\ iconTracker'.icons[e] = k.faviconCache[iconTracker'.tags[e].domain]
    ]_allvars

\* at time 0 a second tag for a.com shows the cached fallback, and the only
\* 3 s timer armed is the one of the first tag's load
C24_Witness ==
  /\ iconTracker.now = 0
  /\ Len(iconTracker.tags) = 2
  /\ "a.com" \in DOMAIN iconTracker.faviconCache
  /\ iconTracker.faviconCache["a.com"] = "fallback"
  /\ iconTracker.icons[2] = "fallback"
  /\ \A t \in FaviconTimers(iconTracker) : t.element = 1


\* C26: for every domain text (the empty one, and those whose 32-bit hash
\* wraps to a negative value or to -2^31 included) getDomainColorClass
\* returns one of the four palette classes: Math.abs(hash) % 4 is in 0..3.
C26_ColorClassInPalette ==
  call.result # "running"
  => /\ ColorIndex(call.hash) \in 0..3
     /\ call.result \in Range(colorClasses)
     /\ call.result = getDomainColorClass(call.domain)

\* the call for the text whose hash is -2^31 has returned
C26_Witness ==
  /\ call.result # "running"
  /\ call.domain = Text(<<"x", "f", "j", "f", "x", "t", "f">>)
  /\ call.hash = [hi |-> Half \div 2, lo |-> 0]
  /\ Int32Negative(call.hash)


\* C25: at every time the tag of every live record carries the colour class
\* getDomainColorClass(baseDomain): the class depends on the baseDomain
\* alone, a re-created record gets the same one, and neither counter
\* updates nor configuration changes alter it.
C25_TagColorFollowsDomain ==
  /\ \A d \in DOMAIN displayedDomains :
       tags[displayedDomains[d].element].colorClass = DomainColorClass[d]
  /\ \A e \in 1..Len(tags) :
       tags[e].colorClass = DomainColorClass[tags[e].domain]

\* two live records with different classes, one of them re-created after a
\* dismissal (its first element is still leaving the page), after a change
\* of the settings
C25_Witness ==
  /\ DOMAIN displayedDomains = {"a.com", "b.com"}
  /\ tags[displayedDomains["a.com"].element].colorClass = "color-orange"
  /\ tags[displayedDomains["b.com"].element].colorClass = "color-vista-bleu"
  /\ \E e \in 1..Len(tags) : tags[e].domain = "a.com" /\ tags[e].removing
  /\ ~enableTimeout


\* C27: for every text, every count >= 1 and non-negative measured widths
\* calculateOptimalTagWidth returns a value in MIN_TAG_WIDTH..MAX_TAG_WIDTH:
\* MIN_TAG_WIDTH when the computed total is below it, MAX_TAG_WIDTH when it
\* is above, the total rounded up otherwise.
C27_WidthWithinLimits ==
  call.at = "returned"
  => LET total == TotalWidth(call.domainWidth, call.countWidth)
     IN /\ call.domainWidth >= 0 /\ call.countWidth >= 0
        /\ call.result \in MIN_TAG_WIDTH..MAX_TAG_WIDTH
        /\ total < MIN_TAG_WIDTH * PerPixel => call.result = MIN_TAG_WIDTH
        /\ total > MAX_TAG_WIDTH * PerPixel => call.result = MAX_TAG_WIDTH
        /\ total \in (MIN_TAG_WIDTH * PerPixel)..(MAX_TAG_WIDTH * PerPixel)
             => /\ call.result * PerPixel >= total
                /\ (call.result - 1) * PerPixel < total

\* a call whose total lies above the maximum has returned
C27_Witness ==
  /\ call.at = "returned"
  /\ TotalWidth(call.domainWidth, call.countWidth) > MAX_TAG_WIDTH * PerPixel
  /\ call.result = MAX_TAG_WIDTH
  /\ call.count = 12345


\* the fonts with which the measured width is non-decreasing in the length
\* of the text, for the domain texts and for the count texts
NonDecreasingFonts ==
  {f \in Fonts :
     /\ \A t1, t2 \in DomainTexts :
          Len(t1) <= Len(t2)
          => measureTextWidth(f, t1, 12) <= measureTextWidth(f, t2, 12)
     /\ \A c1, c2 \in Counts :
          Len(CountText(c1)) <= Len(CountText(c2))
          => measureTextWidth(f, CountText(c1), 10)
               <= measureTextWidth(f, CountText(c2), 10)}

\* C28: with a measurement that is non-decreasing in the length of the
\* text, calculateOptimalTagWidth is non-decreasing in the length of the
\* domain text and in the number of decimal figures of the count.
C28_WidthNonDecreasing ==
  (call.at = "returned" /\ call.font \in NonDecreasingFonts)
  => /\ \A t \in DomainTexts :
          Len(t) >= Len(call.domainText)
          => calculateOptimalTagWidth(call.font, t, call.count) >= call.result
     /\ \A c \in Counts :
          Len(CountText(c)) >= Len(CountText(call.count))
          => calculateOptimalTagWidth(call.font, call.domainText, c)
               >= call.result

\* a call has returned a width between the limits, and both a longer text
\* and a count with more figures give a wider tag
C28_Witness ==
  /\ call.at = "returned"
  /\ call.font \in NonDecreasingFonts
  /\ call.result > MIN_TAG_WIDTH
  /\ \E t \in DomainTexts :
       /\ Len(t) > Len(call.domainText)
       /\ calculateOptimalTagWidth(call.font, t, call.count) > call.result
  /\ \E c \in Counts :
       /\ Len(CountText(c)) > Len(CountText(call.count))
       /\ calculateOptimalTagWidth(call.font, call.domainText, c) > call.result


\* C29: after every operation the width of the tag of every live record is
\* calculateOptimalTagWidth(baseDomain, count) for the record's current
\* count: set at creation for count 1 and recomputed at every change of the
\* count.
C29_TagWidthFollowsCount ==
  \A d \in DOMAIN displayedDomains :
    tags[displayedDomains[d].element].width
      = OptimalTagWidth[d][displayedDomains[d].count]

\* a record counted three times: its tag is wider than a new tag of the
\* same domain
C29_Witness ==
  /\ "a.com" \in DOMAIN displayedDomains
  /\ displayedDomains["a.com"].count = 3
  /\ tags[displayedDomains["a.com"].element].width = 312
  /\ calculateOptimalTagWidth(PageFont, DomainText("a.com"), 1) = 301


\* C30: the queue-based tracker processes the events in the order in which
\* they were enqueued and each of them at most once: the queue holds its
\* events oldest first, all of them newer than the last one processed, and
\* the consumer always processes the oldest queued event, which then is in
\* the queue no more.
C30_ProcessedInEnqueueOrder ==
  /\ [](LET queue == queueTracker.domainQueue
        IN /\ \A i, j \in 1..Len(queue) : i < j => queue[i].seq < queue[j].seq
           /\ \A i \in 1..Len(queue) :
                queue[i].seq > queueTracker.lastProcessed)
  /\ [][queueTracker'.lastProcessed # queueTracker.lastProcessed
        => /\ queueTracker.domainQueue # <<>>
           /\ queueTracker'.lastProcessed = Head(queueTracker.domainQueue).seq
           /\ queueTracker'.lastProcessed > queueTracker.lastProcessed
           /\ queueTracker'.domainQueue = Tail(queueTracker.domainQueue)
           /\ \A i \in 1..Len(queueTracker.domainQueue) :
                queueTracker.domainQueue[i].seq
                  >= queueTracker'.lastProcessed]_allvars

\* the first of three queued events has been processed, the other two wait
\* in the queue
C30_Witness ==
  /\ queueTracker.lastProcessed = 1
  /\ Len(queueTracker.domainQueue) = 2
  /\ queueTracker.domainQueue[1].seq = 2
  /\ queueTracker.domainQueue[2].seq = 3
  /\ queueTracker.displayedDomains # EmptyMap


\* C31: a timeout value that is missing or invalid falls back to the
\* default: after the loadTimeoutSettings callback or updateTimeoutSettings
\* with such a value timeoutDuration is 5000 ms, and a missing enableTimeout
\* is treated as true.
C31_InvalidTimeoutFallsBack ==
  [][\A ts \in InvalidTimeoutSecondsInputs : \A en \in EnableTimeoutInputs :
       (\/ TimeoutChangedTo(TimeoutMessage(ts, en))
        \/ InvalidLoadTimeoutSettingsCallbackWith(ts, en))
       => /\ timeoutDuration' = DefaultTimeoutSeconds * MsPerSecond
          /\ en = {} => enableTimeout'
    ]_vars


\* C32: getBaseDomain returns null for a null or empty hostname, the
\* hostname itself if it has fewer than two labels, the last three labels
\* when it has at least three labels and the second-to-last label has at
\* most three characters, and the last two labels otherwise.
C32_BaseDomainByLabels ==
  call.at = "returned" =>
    IF (IF call.domain = {} THEN TRUE ELSE Value(call.domain) = <<>>)
    THEN call.result = {}
    ELSE
      LET h == Value(call.domain)
          dots == {i \in 1..Len(h) : h[i] = "."}
          labels == Cardinality(dots) + 1
          \* position of the k-th dot counted from the end, 0 if none
          DotFromEnd(k) ==
            IF Cardinality(dots) < k THEN 0
            ELSE CHOOSE i \in dots : Cardinality({j \in dots : j >= i}) = k
          LastLabels(k) == SubSeq(h, DotFromEnd(k) + 1, Len(h))
          secondToLast == DotFromEnd(1) - DotFromEnd(2) - 1
      IN IF labels < 2 THEN call.result = {h}
         ELSE IF labels >= 3 /\ secondToLast <= 3
              THEN call.result = {LastLabels(3)}
              ELSE call.result = {LastLabels(2)}

\* a hostname of four labels whose second-to-last label is short: the
\* first label is dropped and three are kept
C32_Witness ==
  /\ call.at = "returned"
  /\ call.domain = {<<"a", ".", "b", ".", "a", "b", ".", "a">>}
  /\ call.result = {<<"b", ".", "a", "b", ".", "a">>}


\* C33: the key set of subdomainCounts equals the key set of
\* displayedDomains, and every key of domainTimeouts is a key of
\* displayedDomains.
C33_MapsShareKeys ==
  /\ DOMAIN subdomainCounts = DOMAIN displayedDomains
  /\ DOMAIN domainTimeouts \subseteq DOMAIN displayedDomains

\* one record was removed, its tag still fading, and another is displayed
\* with its timer armed
C33_Witness ==
  /\ DOMAIN displayedDomains = {"b.com"}
  /\ DOMAIN subdomainCounts = {"b.com"}
  /\ DOMAIN domainTimeouts = {"b.com"}
  /\ \E e \in 1..Len(tags) : tags[e].domain = "a.com" /\ tags[e].removing


\* C34: whenever isEnabled is false, displayedDomains is empty and no
\* expiry timer is armed, whichever way the flag became false (the storage
\* listener or the GET_ENABLED_STATE response).
C34_DisabledShowsNothing ==
  ~isEnabled =>
    /\ DOMAIN displayedDomains = {}
    /\ DOMAIN domainTimeouts = {}
    /\ \A t \in timers : t.kind # "expiry"


\* C35: a storage change that carries only timeoutSeconds leaves
\* enableTimeout unchanged, and one that carries only enableTimeout leaves
\* timeoutDuration unchanged; changing the duration while the TTL is
\* disabled neither re-enables the TTL nor arms timers.
C35_StorageChangeKeepsOtherSetting ==
  [][\A changes \in StorageChangeInputs :
       StorageChangedBy(changes) =>
         /\ (changes.timeoutSeconds # {} /\ changes.enableTimeout = {})
              => /\ enableTimeout' = enableTimeout
                 /\ ~enableTimeout =>
                      /\ DOMAIN domainTimeouts' = {}
                      /\ \A t \in timers' : t.kind # "expiry"
         /\ (changes.timeoutSeconds = {} /\ changes.enableTimeout # {})
              => timeoutDuration' = timeoutDuration
    ]_vars


\* C36: in the queue-based tracker the count of every live record is the
\* number of distinct fullDomains in subdomainCounts[baseDomain], and so is
\* the counter its tag shows; processing an event whose fullDomain is
\* already in the set resets the record's timer and changes neither the
\* count nor the counter.
C36_CountIsDistinctSubdomains ==
  /\ [](\A d \in DOMAIN queueTracker.displayedDomains :
          LET record == queueTracker.displayedDomains[d]
          IN /\ record.count = Cardinality(queueTracker.subdomainCounts[d])
             /\ queueTracker.tags[record.element].count = record.count)
  /\ [][(/\ queueTracker'.lastProcessed # queueTracker.lastProcessed
          /\ Head(queueTracker.domainQueue).baseDomain
               \in DOMAIN queueTracker.displayedDomains
          /\ Head(queueTracker.domainQueue).fullDomain
               \in queueTracker.subdomainCounts[
                     Head(queueTracker.domainQueue).baseDomain])
        => LET d == Head(queueTracker.domainQueue).baseDomain
               e == queueTracker.displayedDomains[d].element
           IN /\ queueTracker'.displayedDomains = queueTracker.displayedDomains
              /\ queueTracker'.subdomainCounts = queueTracker.subdomainCounts
              /\ queueTracker'.tags[e].count = queueTracker.tags[e].count
              /\ \A t \in queueTracker'.timers :
                   t.kind = "expiry" /\ t.domain = d
                     => t.due = queueTracker.now + QueueTimeoutMs
              /\ \E t \in queueTracker'.timers :
                   /\ t.kind = "expiry" /\ t.domain = d
                   /\ t.id = queueTracker'.domainTimeouts[d]
                   /\ t.due = queueTracker.now + QueueTimeoutMs]_allvars

\* the same fullDomain was processed twice, the second time after the clock
\* had moved: one tag, count 1, and the timer runs from the second event
C36_Witness ==
  /\ queueTracker.lastProcessed = 2
  /\ queueTracker.now > 0
  /\ Len(queueTracker.tags) = 1
  /\ DOMAIN queueTracker.displayedDomains = {"a.com"}
  /\ queueTracker.displayedDomains["a.com"].count = 1
  /\ Cardinality(queueTracker.subdomainCounts["a.com"]) = 1
  /\ \E t \in queueTracker.timers :
       t.kind = "expiry" /\ t.due = queueTracker.now + QueueTimeoutMs


\* C37: at every instant the container holds at most one tag element per
\* baseDomain, also during the removal animation of a tag whose domain
\* receives a new event.
C37_OneTagPerDomain ==
  \A d \in BaseDomains :
    Cardinality({e \in 1..Len(tags) : tags[e].inDOM /\ tags[e].domain = d})
      <= 1


\* C38: in the queue-based tracker every enqueued event is eventually
\* dequeued and processed by the consumer, unless the feature is disabled in
\* the meantime (clearAllTags is called only on disabling); and a run of the
\* consumer processes at most one event: it takes exactly the processed
\* event off the queue.
C38_EnqueuedEventuallyProcessed ==
  /\ \A n \in 1..MaxEvents :
       (\E i \in 1..Len(queueTracker.domainQueue) :
          queueTracker.domainQueue[i].seq = n)
         ~> (queueTracker.lastProcessed = n \/ ~queueTracker.isEnabled)
  /\ [][QueueConsumerRuns
         => \/ /\ ~queueTracker.isEnabled
               /\ queueTracker' = queueTracker
            \/ /\ queueTracker.isEnabled
               /\ queueTracker'.domainQueue = Tail(queueTracker.domainQueue)
       ]_allvars

\* the second of three events has been processed while the tracker stayed
\* enabled, the third still waits
C38_Witness ==
  /\ queueTracker.isEnabled
  /\ ~queueTracker.checkPending
  /\ queueTracker.lastProcessed = 2
  /\ Len(queueTracker.domainQueue) = 1
  /\ queueTracker.domainQueue[1].seq = 3


\* C39: the icon of a tag changes at most once after its creation, from the
\* placeholder to the favicon or to the fallback marker, and never back or
\* a second time, whatever the order of image load, image error and 3 s
\* timeout.
C39_IconChangesOnce ==
  [][\A e \in 1..Len(iconTracker.icons) :
       iconTracker'.icons[e] # iconTracker.icons[e]
         => /\ iconTracker.icons[e] = "placeholder"
            /\ iconTracker'.icons[e] \in {"url", "fallback"}
    ]_allvars

\* the timeout gave the tag the fallback, the image loaded afterwards and
\* the tag, still displayed, kept the fallback
C39_Witness ==
  /\ Len(iconTracker.icons) = 1
  /\ iconTracker.icons[1] = "fallback"
  /\ "a.com" \in DOMAIN iconTracker.displayedDomains
  /\ iconTracker.displayedDomains["a.com"].element = 1
  /\ "a.com" \in DOMAIN iconTracker.faviconCache
  /\ iconTracker.faviconCache["a.com"] = "url"

=============================================================================
